---- MODULE Spec2Model ----
(***************************************************************************)
(* A model of the rolscript runtime (coucya/rolscript): the cycle          *)
(* collector of runtime.rs, the allocation trigger, the module cache, the  *)
(* closure activation and opcode loop of function.rs, and the expression   *)
(* compiler of ast.rs / script_code.rs.                                    *)
(*                                                                         *)
(* The module holds several specifications over one variable tuple; a      *)
(* specification leaves the variables of the other parts at their idle     *)
(* values.                                                                 *)
(***************************************************************************)
EXTENDS Integers, Sequences, FiniteSets, TLC

VARIABLES gc, gc_start, alloc, mods, vm, dyn, rt, call, ops, pool, hook

vars == <<gc, gc_start, alloc, mods, vm, dyn, rt, call, ops, pool, hook>>

(***************************************************************************)
(* Bounds                                                                  *)
(***************************************************************************)
\* number of heap values in a modelled heap
NObj == 3
\* longest element / attribute list of one value
MaxItems == 1

(***************************************************************************)
(* Generic helpers                                                         *)
(***************************************************************************)
Range(s) == {s[i] : i \in 1..Len(s)}

SeqsUpTo(S, n) == UNION {[1..k -> S] : k \in 0..n}

Count(s, x) == Cardinality({i \in 1..Len(s) : s[i] = x})

Without(s, x) == SelectSeq(s, LAMBDA y : y # x)

Perms(S) == {p \in [1..Cardinality(S) -> S] : Range(p) = S}

(***************************************************************************)
(* PART 1.  The heap and the cycle collector (runtime.rs, value.rs,        *)
(* collections/list.rs)                                                    *)
(*                                                                         *)
(* Values are numbered 1..NObj.  The builtin types, the interned strings   *)
(* and host functions are held by statics of the runtime for its whole     *)
(* life; they sit at the head of the live list, their count never reaches  *)
(* zero and they are written 0 where a value refers to one of them.  (The  *)
(* strings and integers a program stores in its own values are followed in *)
(* PART 10.)                                                               *)
(***************************************************************************)
Objs == 1..NObj

\* the guard node of an intrusive list (ListBase::_guard)
Guard == 0

Kinds == {"Array", "Code", "Function", "Type", "Dyn"}

Obj(k, t, its, c, cap, d) ==
    [kind |-> k, tp |-> t, items |-> its, code |-> c, captured |-> cap, destory_dyn |-> d]

ItemSeqs == SeqsUpTo(Objs, MaxItems)

\* the shapes a value can have: RArray (elements), RScriptCode, RFunction
\* (script closure: code and captured array), RType made by a script
\* (attribute values, destructor override), an instance of such a type
\* (attribute values)
ObjRecs ==
    {Obj("Array", 0, its, 0, 0, "none") : its \in ItemSeqs}
    \cup {Obj("Code", 0, <<>>, 0, 0, "none")}
    \cup {Obj("Function", 0, <<>>, c, cap, "none") : c \in Objs, cap \in Objs}
    \cup {Obj("Type", 0, its, 0, 0, d) : its \in ItemSeqs, d \in {"none", "ok", "err"}}
    \cup {Obj("Dyn", t, its, 0, 0, "none") : t \in Objs, its \in ItemSeqs}

KindRank(k) ==
    CASE k = "Array" -> 1 [] k = "Code" -> 2 [] k = "Function" -> 3
      [] k = "Type" -> 4 [] k = "Dyn" -> 5

\* a heap is well typed: a closure's code is a code value and its captured
\* list an array, an instance's type is a script-made type.  Values are
\* numbered in kind order (the numbering carries no meaning; the order of the
\* live list is chosen separately).
WellTyped(h) ==
    /\ \A o \in Objs :
        /\ h[o].kind = "Function" =>
              h[h[o].code].kind = "Code" /\ h[h[o].captured].kind = "Array"
        /\ h[o].kind = "Dyn" => h[h[o].tp].kind = "Type"
    /\ \A o \in Objs \ {NObj} : KindRank(h[o].kind) <= KindRank(h[o + 1].kind)

Heaps == {h \in [Objs -> ObjRecs] : WellTyped(h)}

\* the references a value owns: what its destroy hook drops
\* (array__destory, RFunction::_drop, RType::_drop, _dyn__destory)
Owned(h, o) ==
    CASE h[o].kind = "Function" -> <<h[o].code, h[o].captured>>
      [] h[o].kind = "Code" -> <<>>
      [] OTHER -> h[o].items

\* array__visit: every element
array__visit(h, o) == h[o].items

\* function__visit: the code, then the ELEMENTS of the captured array (the
\* array itself is not passed to the visitor)
function__visit(h, o) == <<h[o].code>> \o h[h[o].captured].items

\* type__visit: name, attribute keys and overrides (all strings and host
\* functions here); the attribute values are not visited
type__visit(h, o) == <<>>

\* _dyn__visit: attribute keys and values
_dyn__visit(h, o) == h[o].items

\* what the visit slot of the value's type passes to the visitor
TypeVisit(h, o) ==
    CASE h[o].kind = "Array" -> array__visit(h, o)
      [] h[o].kind = "Function" -> function__visit(h, o)
      [] h[o].kind = "Type" -> type__visit(h, o)
      [] h[o].kind = "Dyn" -> _dyn__visit(h, o)
      [] OTHER -> <<>>

\* value_visit_ptr: the type back-pointer, then the type's visit slot
value_visit_ptr(h, o) ==
    (IF h[o].tp # 0 THEN <<h[o].tp>> ELSE <<>>) \o TypeVisit(h, o)

\* every reference stored in a value: the header's type pointer and the
\* owned fields
Refs(h, o) == (IF h[o].tp # 0 THEN <<h[o].tp>> ELSE <<>>) \o Owned(h, o)

RECURSIVE SumOver(_, _)
SumOver(f, S) ==
    IF S = {} THEN 0
    ELSE LET x == CHOOSE y \in S : TRUE IN f[x] + SumOver(f, S \ {x})

InDegree(h, x) == SumOver([o \in Objs |-> Count(Refs(h, o), x)], Objs)

(***************************************************************************)
(* The collector state: gc is the GcInfo of the runtime together with the  *)
(* header fields of the values.                                            *)
(*   heap       the fields of each value                                   *)
(*   handles    references held outside the heap graph (Ref values on the  *)
(*              host stack, in statics, in the VM stack)                   *)
(*   ref_count  GcHeader::_ref_count.  The field is a usize; a negative    *)
(*              number -k stands for the wrapped value 2^64 - k            *)
(*   mark       GcHeader::_mark                                            *)
(*   the four intrusive lists of GcInfo, head first                        *)
(*   destroyed  values whose destroy hook has run                          *)
(*   freed      values whose storage went back to the allocator            *)
(*   result     "idle" before a cycle, "run" inside run_gc, then "ok" or   *)
(*              "err" (run_gc returned Err)                                *)
(*   underflow  a decrement met a count of zero.  The subtraction wraps    *)
(*              in a release build, which goes on as modelled here; a      *)
(*              debug build panics at that decrement.                      *)
(***************************************************************************)
Lists == {"gc_objs", "tmp_gc_objs", "to_be_released_objs", "has_been_released_objs"}

\* ListBase::remove: unlink the node from the list it is linked in
remove(s, x) ==
    [s EXCEPT !.gc_objs = Without(@, x),
              !.tmp_gc_objs = Without(@, x),
              !.to_be_released_objs = Without(@, x),
              !.has_been_released_objs = Without(@, x)]

\* ListBase::insert_last
insert_last(s, l, x) == [s EXCEPT ![l] = Append(@, x)]

\* ListIter::new: the iterator starts at the node after the guard
ListIterNew(list) == IF list = <<>> THEN Guard ELSE list[1]

\* the _next pointer of node v, read by ListIter::next BEFORE the loop body
\* handles v
ListIterNext(s, v) ==
    LET l == CHOOSE m \in Lists : v \in Range(s[m])
        i == CHOOSE j \in 1..Len(s[l]) : s[l][j] = v
    IN IF i = Len(s[l]) THEN Guard ELSE s[l][i + 1]

\* GcHeader::dec_ref
dec_ref(s, x) ==
    [s EXCEPT !.ref_count[x] = @ - 1,
              !.underflow = @ \/ s.ref_count[x] = 0]

\* GcHeader::inc_ref
inc_ref(s, x) == [s EXCEPT !.ref_count[x] = @ + 1]

\* Visitor::visit_value applied to each reference the visit passes, in order
RECURSIVE VisitAll(_, _, _)
VisitAll(F(_, _), s, refs) ==
    IF refs = <<>> \/ s.result # "run" THEN s
    ELSE VisitAll(F, F(s, Head(refs)), Tail(refs))

\* _dec_ref_mark: the visitor of the decrement phase
_dec_ref_mark(s, x) ==
    LET s1 == dec_ref(s, x)
    IN IF s1.result = "run" /\ s1.mark[x] /\ s1.ref_count[x] = 0
       THEN insert_last(remove(s1, x), "tmp_gc_objs", x)
       ELSE s1

RECURSIVE DecRefLoop(_, _)
DecRefLoop(s, cur) ==
    IF cur = Guard \/ s.result # "run" THEN s
    ELSE LET nxt == ListIterNext(s, cur)
             s1 == VisitAll(_dec_ref_mark, s, value_visit_ptr(s.heap, cur))
             s2 == [s1 EXCEPT !.mark[cur] = TRUE]
             s3 == IF s2.result = "run" /\ s2.ref_count[cur] = 0
                   THEN insert_last(remove(s2, cur), "tmp_gc_objs", cur)
                   ELSE s2
         IN DecRefLoop(s3, nxt)

\* Runtime::_dec_ref
_dec_ref(s) == DecRefLoop(s, ListIterNew(s.gc_objs))

\* _scan_1_mark: the visitor of the rescue scan
_scan_1_mark(s, x) ==
    LET s1 == inc_ref(s, x)
    IN IF s1.ref_count[x] = 1
       THEN [insert_last(remove(s1, x), "gc_objs", x) EXCEPT !.mark[x] = FALSE]
       ELSE s1

\* _scan_2_mark: the visitor of the second scan loop
_scan_2_mark(s, x) == inc_ref(s, x)

RECURSIVE ScanLoop1(_, _)
ScanLoop1(s, cur) ==
    IF cur = Guard \/ s.result # "run" THEN s
    ELSE LET nxt == ListIterNext(s, cur)
             s0 == [s EXCEPT !.mark[cur] = FALSE]
             s1 == VisitAll(_scan_1_mark, s0, value_visit_ptr(s.heap, cur))
         IN ScanLoop1(s1, nxt)

RECURSIVE ScanLoop2(_, _)
ScanLoop2(s, cur) ==
    IF cur = Guard \/ s.result # "run" THEN s
    ELSE LET nxt == ListIterNext(s, cur)
             s1 == VisitAll(_scan_2_mark, s, value_visit_ptr(s.heap, cur))
         IN ScanLoop2(s1, nxt)

\* Runtime::_scan
_scan(s) ==
    LET s1 == ScanLoop1(s, ListIterNew(s.gc_objs))
    IN ScanLoop2(s1, ListIterNew(s1.tmp_gc_objs))

\* the destroy hooks (array__destory, function destroy, type destroy,
\* module destroy): drop every owned reference.  Ref::drop is a dec_ref.
DropOwned(s, v) ==
    [VisitAll(dec_ref, s, Owned(s.heap, v)) EXCEPT !.destroyed = @ \cup {v}]

\* _dyn__destory: call the type's destructor override first and return its
\* error; drop the attributes only after it returned Ok
_dyn__destory(s, v) ==
    IF s.heap[s.heap[v].tp].destory_dyn = "err"
    THEN [s EXCEPT !.result = "err"]
    ELSE DropOwned(s, v)

\* value_destory: run the destroy slot of the value's type
value_destory(s, v) ==
    IF s.heap[v].kind = "Dyn" THEN _dyn__destory(s, v) ELSE DropOwned(s, v)

\* Runtime::free_gc_obj: drop the header's type reference, give the block
\* back to the allocator, count the value out
free_gc_obj(s, v) ==
    LET s1 == IF s.heap[v].tp # 0 THEN dec_ref(s, s.heap[v].tp) ELSE s
    IN [s1 EXCEPT !.freed = @ \cup {v}, !.current_obj_count = @ - 1]

\* second loop of _free_cycles: move the value to the released list, take a
\* Ref on it, run its destroy hook; `?` leaves the function on an error
RECURSIVE DestroyLoop(_, _)
DestroyLoop(s, cur) ==
    IF cur = Guard \/ s.result # "run" THEN s
    ELSE LET nxt == ListIterNext(s, cur)
             s1 == insert_last(remove(s, cur), "has_been_released_objs", cur)
             s2 == value_destory(inc_ref(s1, cur), cur)
             s3 == dec_ref(s2, cur)
         IN DestroyLoop(s3, nxt)

\* third loop of _free_cycles
RECURSIVE FreeLoop(_, _)
FreeLoop(s, cur) ==
    IF cur = Guard \/ s.result # "run" THEN s
    ELSE LET nxt == ListIterNext(s, cur)
         IN FreeLoop(free_gc_obj(remove(s, cur), cur), nxt)

\* Runtime::_free_cycles
_free_cycles(s) ==
    LET s1 == [s EXCEPT !.to_be_released_objs = @ \o s.tmp_gc_objs,
                        !.tmp_gc_objs = <<>>]
        s2 == DestroyLoop(s1, ListIterNew(s1.to_be_released_objs))
    IN FreeLoop(s2, ListIterNew(s2.has_been_released_objs))

\* Runtime::run_gc
run_gc(s) ==
    LET s1 == _free_cycles(_scan(_dec_ref([s EXCEPT !.result = "run"])))
    IN IF s1.result = "run" THEN [s1 EXCEPT !.result = "ok"] ELSE s1

\* most handles held on one value from outside the heap graph
MaxHandles == 1

\* the collector state of a runtime holding heap h with the given outside
\* handles, whose live list is in the given order
GcInit(h, hd, order) ==
    [heap |-> h, handles |-> hd,
     ref_count |-> [o \in Objs |-> hd[o] + InDegree(h, o)],
     mark |-> [o \in Objs |-> FALSE],
     gc_objs |-> order, tmp_gc_objs |-> <<>>,
     to_be_released_objs |-> <<>>, has_been_released_objs |-> <<>>,
     destroyed |-> {}, freed |-> {}, current_obj_count |-> NObj,
     result |-> "idle", underflow |-> FALSE]

IdleGc == [result |-> "none"]
IdleAlloc == [pc |-> "none"]
IdleMods == [pc |-> "none"]
IdleVm == [pc |-> "none"]
IdleDyn == [pc |-> "none"]
IdleRt == [pc |-> "none"]
IdleCall == [pc |-> "none"]
IdleOps == [pc |-> "none"]
IdlePool == [pc |-> "none"]
IdleHook == [pc |-> "none"]

InitGC ==
    /\ gc \in {GcInit(h, hd, order) :
                 h \in Heaps, hd \in [Objs -> 0..MaxHandles],
                 order \in Perms(Objs)}
    /\ gc_start = gc
    /\ alloc = IdleAlloc
    /\ mods = IdleMods
    /\ vm = IdleVm
    /\ dyn = IdleDyn
    /\ rt = IdleRt
    /\ call = IdleCall
    /\ ops = IdleOps
    /\ pool = IdlePool
    /\ hook = IdleHook

\* one collection cycle
RunGc ==
    /\ gc.result = "idle"
    /\ gc_start' = gc
    /\ gc' = run_gc(gc)
    /\ UNCHANGED <<alloc, mods, vm, dyn, rt, call, ops, pool, hook>>

NextGC == RunGc

SpecGC == InitGC /\ [][NextGC]_vars

(***************************************************************************)
(* Claims about the collector                                              *)
(***************************************************************************)
\* the values reachable from set S through the references stored in heap h
RECURSIVE ReachableFrom(_, _)
ReachableFrom(h, S) ==
    LET T == S \cup UNION {Range(Refs(h, o)) : o \in S}
    IN IF T = S THEN S ELSE ReachableFrom(h, T)

\* the values reachable from a handle held outside the heap graph
Reachable(s) == ReachableFrom(s.heap, {o \in Objs : s.handles[o] > 0})

\* the values the decrement and scan phases leave on the scratch list
Condemned(s) ==
    Range(_scan(_dec_ref([s EXCEPT !.result = "run"])).tmp_gc_objs)

\* C1: after a complete cycle no value reachable from an outside handle has
\* been destroyed or freed; each is on the live list with a non-zero count
C1_ReachableSurvives ==
    gc.result = "ok" =>
        \A o \in Reachable(gc_start) :
            /\ o \notin gc.destroyed \cup gc.freed
            /\ o \in Range(gc.gc_objs)
            /\ gc.ref_count[o] # 0

\* C2: when a destroy hook returns an error, every other condemned value has
\* still been destroyed and freed, and the failing value's storage has been
\* returned too
C2_ErrorStillReclaims ==
    gc.result = "err" =>
        /\ Condemned(gc_start) \subseteq gc.freed
        /\ Cardinality(Condemned(gc_start) \ gc.destroyed) = 1

\* C3: the visit of every value passes each reference the value stores (its
\* owned fields and the type back-pointer) exactly once
C3_VisitIsFaithful ==
    gc.result = "idle" =>
        \A o \in Objs : \A x \in Objs :
            Count(value_visit_ptr(gc.heap, o), x) = Count(Refs(gc.heap, o), x)

\* C4: when run_gc returns without an error every value on the live list has
\* a reference count greater than zero
C4_LiveCountsPositive ==
    gc.result = "ok" => \A o \in Range(gc.gc_objs) : gc.ref_count[o] # 0

(***************************************************************************)
(* PART 2.  The allocation trigger (Runtime::new_gc_obj, Runtime::run_gc)  *)
(*                                                                         *)
(* alloc holds the byte counters of GcInfo.  What a cycle frees depends on *)
(* the heap (PART 1); here it is an input of the step: any number of the   *)
(* bytes allocated since construction.  A cycle whose destroy hook fails   *)
(* returns before its free loop, so it frees nothing.                      *)
(*   curent_mem_size, last_mem_size   the fields of GcInfo                 *)
(*   cycle_ran      a cycle has run to its end (run_gc returned Ok)        *)
(*   end_mem_size   curent_mem_size when the latest such cycle ended       *)
(*   collected      the latest new_gc_obj started a cycle                  *)
(***************************************************************************)
\* the seed threshold of new_gc_obj: 1024 * 1024
SeedThreshold == 1048576
\* the factor of new_gc_obj
GrowthFactor == 8

\* allocation granule of the modelled programs, in bytes
Granule == 524288
\* allocation stops at this many granules
MaxGranules == 27

\* the bytes allocated by the construction of the runtime
BootMem == Granule

AllocSizes == {Granule, 2 * Granule, 8 * Granule}

\* the bytes a cycle can free: whole granules allocated after construction
Freeable(a) ==
    {k * Granule : k \in 0..((a.curent_mem_size - BootMem) \div Granule)}

\* Runtime::run_gc on the counters: last_mem_size is read BEFORE the three
\* phases and stored only when _free_cycles returned Ok
gc_counters(a, freed, ok) ==
    IF ok
    THEN [a EXCEPT !.curent_mem_size = @ - freed,
                   !.last_mem_size = a.curent_mem_size,
                   !.cycle_ran = TRUE,
                   !.end_mem_size = a.curent_mem_size - freed]
    ELSE a

\* the test new_gc_obj makes before it allocates
gc_wanted(a) ==
    IF a.last_mem_size = 0
    THEN a.curent_mem_size > SeedThreshold
    ELSE a.curent_mem_size > a.last_mem_size * GrowthFactor

\* Runtime::new_gc_obj: test, maybe collect (an error of the cycle is
\* returned and nothing is allocated), allocate (a null block is
\* Error::OutOfMemory), count the block in
new_gc_obj(a, size, freed, ok, oom) ==
    LET a1 == IF gc_wanted(a) THEN gc_counters(a, freed, ok) ELSE a
        a2 == [a1 EXCEPT !.collected = gc_wanted(a), !.pc = "checked"]
    IN IF (gc_wanted(a) /\ ~ok) \/ oom
       THEN a2
       ELSE [a2 EXCEPT !.curent_mem_size = @ + size]

InitAlloc ==
    /\ alloc = [curent_mem_size |-> BootMem, last_mem_size |-> 0,
                cycle_ran |-> FALSE, end_mem_size |-> 0,
                collected |-> FALSE,
                pc |-> "boot"]
    /\ gc = IdleGc
    /\ gc_start = IdleGc
    /\ mods = IdleMods
    /\ vm = IdleVm
    /\ dyn = IdleDyn
    /\ rt = IdleRt
    /\ call = IdleCall
    /\ ops = IdleOps
    /\ pool = IdlePool
    /\ hook = IdleHook

\* a value is allocated
NewGcObj ==
    \E size \in AllocSizes, ok \in BOOLEAN, oom \in BOOLEAN :
        \E freed \in Freeable(alloc) :
            /\ alloc.curent_mem_size + size <= MaxGranules * Granule
            /\ ~ok => freed = 0
            /\ ~gc_wanted(alloc) => (ok /\ freed = 0)
            /\ alloc' = new_gc_obj(alloc, size, freed, ok, oom)
            /\ UNCHANGED <<gc, gc_start, mods, vm, dyn, rt, call, ops, pool, hook>>

\* the host calls run_gc() itself
HostRunGc ==
    \E ok \in BOOLEAN : \E freed \in Freeable(alloc) :
        /\ ~ok => freed = 0
        /\ alloc' = [gc_counters(alloc, freed, ok) EXCEPT !.pc = "collected"]
        /\ UNCHANGED <<gc, gc_start, mods, vm, dyn, rt, call, ops, pool, hook>>

NextAlloc == NewGcObj \/ HostRunGc

SpecAlloc == InitAlloc /\ [][NextAlloc]_vars

\* C5: an allocation starts a collection exactly when the bytes allocated
\* exceed eight times the bytes measured at the end of the previous cycle,
\* or, when no cycle has run yet, when they exceed 1 MiB
C5_TriggerFromEndOfCycle ==
    [][alloc'.pc = "checked" =>
        (alloc'.collected <=>
            IF alloc.cycle_ran
            THEN alloc.curent_mem_size > GrowthFactor * alloc.end_mem_size
            ELSE alloc.curent_mem_size > SeedThreshold)]_vars

(***************************************************************************)
(* PART 3.  The module cache (load_module, module__import, the loader of   *)
(* the rols host, eval_with_module)                                        *)
(*                                                                         *)
(* A path is a sequence of components; "/" is the root.  An initialization *)
(* function is a script: what it imports is an input of each step.         *)
(*   cache     Runtime::_modules: canonical name -> module                 *)
(*   stack     the running script functions, outermost first; each frame   *)
(*             has the module it runs with as `this`, its canonical name,  *)
(*             the import statements it may still execute, and whether it  *)
(*             is the entry script given to eval_with_module               *)
(*   next_id   identity of the next RModule allocated                      *)
(*   created   per canonical name, the modules load_module created         *)
(*   inits     per canonical name, how often an init function was called   *)
(*   last      the outcome of the latest import                            *)
(*   evals     how many entry scripts the host has run                     *)
(*   done      the modules whose init function has returned Ok             *)
(*   failed    the modules whose init function has returned Err            *)
(***************************************************************************)
\* import statements one script executes at most
MaxImports == 2
\* entry scripts the host evaluates at most
MaxEvals == 2

EntryPath == <<"/", "r", "main">>

\* the script files on disk
FilesOnDisk == {<<"/", "r", "main">>, <<"/", "r", "a">>, <<"/", "r", "b">>}

\* the names scripts pass to import
RawNames ==
    {<<"a">>, <<".", "a">>, <<"b">>, <<"d", "..", "b">>, <<"main">>,
     <<"x">>, <<"..", "..", "a">>}

Front(s) == SubSeq(s, 1, Len(s) - 1)

\* the Err of normalize_name
NoPath == <<"Err">>

\* append_path of StdLoader::normalize_name: CurDir components are dropped
append_path(base, path) == base \o SelectSeq(path, LAMBDA c : c # ".")

\* normalize of StdLoader::normalize_name: a ParentDir component pops the
\* path built so far; popping the root fails
RECURSIVE normalize(_, _)
normalize(done, rest) ==
    IF rest = <<>> THEN done
    ELSE IF Head(rest) = ".."
         THEN IF Len(done) <= 1 THEN NoPath ELSE normalize(Front(done), Tail(rest))
         ELSE normalize(Append(done, Head(rest)), Tail(rest))

\* StdLoader::normalize_name for a relative name: the requester's directory,
\* then the name, then canonicalize (or normalize when nothing is there)
normalize_name(requester, name) ==
    IF Len(requester) <= 1 THEN NoPath
    ELSE normalize(<<>>, append_path(Front(requester), name))

\* StdLoader::load: the file must exist
load_ok(normalized) == normalized \in FilesOnDisk

\* the insertion is lost (or made only after the init call returned)
cache_insert_lost(cache, normalized, module) == cache

\* StringMap::insert on Runtime::_modules
cache_insert(cache, normalized, module) ==
    [p \in DOMAIN cache \cup {normalized} |->
        IF p = normalized THEN module ELSE cache[p]]

Top(m) == m.stack[Len(m.stack)]

\* the running script has executed one more import statement
Advance(m) == [m EXCEPT !.stack[Len(m.stack)].left = @ - 1]

\* an Err travels up through every running script to the host
Unwind(m) ==
    [m EXCEPT !.stack = <<>>, !.pc = "error",
              !.failed = @ \cup {m.stack[i].module :
                                   i \in {j \in 1..Len(m.stack) : ~m.stack[j].entry}}]

\* load_module called by module__import of the running script
load_module(m, name) ==
    LET normalized == normalize_name(Top(m).path, name)
    IN IF normalized = NoPath THEN Unwind(m)
       ELSE IF normalized \in DOMAIN m.cache
       THEN [Advance(m) EXCEPT
               !.last = [path |-> normalized, module |-> m.cache[normalized],
                         hit |-> TRUE],
               !.pc = "import"]
       ELSE IF ~load_ok(normalized) THEN Unwind(m)
       ELSE LET module == m.next_id
            IN [Advance(m) EXCEPT
                  !.next_id = @ + 1,
                  !.created[normalized] = Append(@, module),
                  !.cache = cache_insert(@, normalized, module),
                  !.inits[normalized] = @ + 1,
                  !.stack = Append(@, [module |-> module, path |-> normalized,
                                       left |-> MaxImports, entry |-> FALSE]),
                  !.last = [path |-> normalized, module |-> module, hit |-> FALSE],
                  !.pc = "import"]

InitModule ==
    /\ mods = [cache |-> <<>>, stack |-> <<>>, next_id |-> 1,
               created |-> [p \in FilesOnDisk |-> <<>>],
               inits |-> [p \in FilesOnDisk |-> 0],
               last |-> [path |-> <<>>, module |-> 0, hit |-> FALSE],
               evals |-> 0, done |-> {}, failed |-> {}, pc |-> "host"]
    /\ gc = IdleGc
    /\ gc_start = IdleGc
    /\ alloc = IdleAlloc
    /\ vm = IdleVm
    /\ dyn = IdleDyn
    /\ rt = IdleRt
    /\ call = IdleCall
    /\ ops = IdleOps
    /\ pool = IdlePool
    /\ hook = IdleHook

\* the host makes the entry module (RModule::new, not cached) and runs a
\* script with it (eval_with_module)
Eval ==
    /\ mods.stack = <<>>
    /\ mods.evals < MaxEvals
    /\ mods' = [mods EXCEPT
                  !.evals = @ + 1,
                  !.next_id = @ + 1,
                  !.stack = <<[module |-> mods.next_id, path |-> EntryPath,
                               left |-> MaxImports, entry |-> TRUE]>>,
                  !.pc = "eval"]
    /\ UNCHANGED <<gc, gc_start, alloc, vm, dyn, rt, call, ops, pool, hook>>

\* the running script imports a module that is cached
ImportHit ==
    \E name \in RawNames :
        /\ mods.stack # <<>> /\ Top(mods).left > 0
        /\ normalize_name(Top(mods).path, name) \in DOMAIN mods.cache
        /\ mods' = load_module(mods, name)
        /\ UNCHANGED <<gc, gc_start, alloc, vm, dyn, rt, call, ops, pool, hook>>

\* the running script imports a module that is not cached: it is loaded,
\* cached and its init function starts
ImportMiss ==
    \E name \in RawNames :
        /\ mods.stack # <<>> /\ Top(mods).left > 0
        /\ normalize_name(Top(mods).path, name) \in FilesOnDisk \ DOMAIN mods.cache
        /\ mods' = load_module(mods, name)
        /\ UNCHANGED <<gc, gc_start, alloc, vm, dyn, rt, call, ops, pool, hook>>

\* the name cannot be normalized or the file is missing
ImportFail ==
    \E name \in RawNames :
        /\ mods.stack # <<>> /\ Top(mods).left > 0
        /\ normalize_name(Top(mods).path, name) \notin FilesOnDisk \cup DOMAIN mods.cache
        /\ mods' = load_module(mods, name)
        /\ UNCHANGED <<gc, gc_start, alloc, vm, dyn, rt, call, ops, pool, hook>>

\* the running script returns to its caller
ScriptReturn ==
    /\ mods.stack # <<>>
    /\ mods' = [mods EXCEPT !.stack = Front(@), !.pc = "return",
                             !.done = IF Top(mods).entry THEN @
                                      ELSE @ \cup {Top(mods).module}]
    /\ UNCHANGED <<gc, gc_start, alloc, vm, dyn, rt, call, ops, pool, hook>>

\* the running script fails with a runtime error
ScriptFail ==
    /\ mods.stack # <<>>
    /\ mods' = Unwind(mods)
    /\ UNCHANGED <<gc, gc_start, alloc, vm, dyn, rt, call, ops, pool, hook>>

NextModule ==
    Eval \/ ImportHit \/ ImportMiss \/ ImportFail \/ ScriptReturn \/ ScriptFail

SpecModule == InitModule /\ [][NextModule]_vars

\* C6: a module made on a cache miss is in the cache while its init function
\* runs, and an import of its canonical name during that time returns that
\* very module: no name is loaded or initialized a second time
C6_CachedBeforeInit ==
    /\ \A i \in 1..Len(mods.stack) :
          ~mods.stack[i].entry =>
              /\ mods.stack[i].path \in DOMAIN mods.cache
              /\ mods.cache[mods.stack[i].path] = mods.stack[i].module
    /\ \A p \in FilesOnDisk : Len(mods.created[p]) <= 1 /\ mods.inits[p] <= 1
    /\ mods.last.hit => mods.last.module = mods.created[mods.last.path][1]

\* an import hit the cache for a module whose init function is still running
C6_Witness ==
    /\ mods.pc = "import"
    /\ mods.last.hit
    /\ \E i \in 1..Len(mods.stack) :
          /\ ~mods.stack[i].entry
          /\ mods.stack[i].path = mods.last.path
          /\ mods.stack[i].module = mods.last.module
(***************************************************************************)
(* PART 4.  The compiler (ast.rs, script_code.rs) and the interpreter      *)
(* loop (function.rs)                                                      *)
(*                                                                         *)
(* The modelled language fragment is integer literals, identifiers, the    *)
(* unary operators, + & <, assignment to a name, if, while, statements     *)
(* and blocks, array literals, for, calls, lambdas and function            *)
(* definitions.  A unit is either the top-level program or the body of a   *)
(* lambda with its parameter list.  Literals stay within i32, so that      *)
(* Ast::Int always takes its LoadInt branch.                               *)
(*                                                                         *)
(* A builder holds its enclosing builders in `parents`, outermost first;   *)
(* the builder a child was made from is the last of them and is taken      *)
(* back from the child when the child is built (the _parent pointer).      *)
(***************************************************************************)
\* longest argument list a unit is entered with
MaxArgs == 2

Op(o, a) == [op |-> o, arg |-> a]

Node(form, op, n, name, flag, kids) ==
    [form |-> form, op |-> op, n |-> n, name |-> name, flag |-> flag,
     kids |-> kids]

IntLit(n) == Node("Int", "", n, "", FALSE, <<>>)
Ident(name) == Node("Ident", "", 0, name, FALSE, <<>>)
UnaryExpr(op, expr) == Node("UnaryExpr", op, 0, "", FALSE, <<expr>>)
ArithExpr(op, left, right) == Node("ArithExpr", op, 0, "", FALSE, <<left, right>>)
CmpExpr(op, left, right) == Node("CmpExpr", op, 0, "", FALSE, <<left, right>>)
Assign(name, expr) == Node("Assign", "", 0, name, FALSE, <<expr>>)
\* kids is <<cond, truebody>> or <<cond, truebody, falsebody>>
If(is_expr, kids) == Node("If", "", 0, "", is_expr, kids)
While(cond, body) == Node("While", "", 0, "", FALSE, <<cond, body>>)
Stat(expr) == Node("Stat", "", 0, "", FALSE, <<expr>>)
\* flag says that the last kid is the value expression of the block
Block(stats, flag, exprs) == Node("Block", "", 0, "", flag, stats \o exprs)
Program(stats, flag, exprs) == Node("Program", "", 0, "", flag, stats \o exprs)
Array(items) == Node("Array", "", 0, "", FALSE, items)
\* kids is <<expr, body>>
For(name, expr, body) == Node("For", "", 0, name, FALSE, <<expr, body>>)
\* kids is <<func>> \o args
Call(func, args) == Node("Call", "", 0, "", FALSE, <<func>> \o args)
\* kids is the parameters, as Ident nodes, followed by the body
Lambda(paramets, body) ==
    Node("Lambda", "", Len(paramets), "", FALSE,
         [i \in 1..Len(paramets) |-> Ident(paramets[i])] \o <<body>>)
FunctionDef(name, paramets, body) ==
    Node("FunctionDef", "", Len(paramets), name, FALSE,
         [i \in 1..Len(paramets) |-> Ident(paramets[i])] \o <<body>>)

IndexOf(s, x) == (CHOOSE i \in 1..Len(s) : s[i] = x) - 1

ScriptCodeBuilderNew ==
    [ops |-> <<>>, labels |-> <<>>, locals |-> <<>>, strings |-> <<>>,
     paramet_count |-> 0, captured |-> <<>>, children |-> <<>>, parents |-> <<>>]

\* ScriptCodeBuilder::new(Some(parent))
ScriptCodeBuilderChild(parent) ==
    [ScriptCodeBuilderNew EXCEPT
        !.parents = parent.parents \o <<[parent EXCEPT !.parents = <<>>]>>]

\* the enclosing builder as the finished child leaves it
parent(b) == [b.parents[Len(b.parents)] EXCEPT !.parents = Front(b.parents)]

has_local(b, name) == name \in Range(b.locals)

with_local(b, name) ==
    IF has_local(b, name)
    THEN [b |-> b, idx |-> IndexOf(b.locals, name)]
    ELSE [b |-> [b EXCEPT !.locals = Append(@, name)], idx |-> Len(b.locals)]

with_paramet(b, name) ==
    [with_local(b, name).b EXCEPT !.paramet_count = @ + 1]

has_captured(b, name) == name \in Range(b.captured)

with_captured(b, name) ==
    IF has_captured(b, name)
    THEN [b |-> b, idx |-> IndexOf(b.captured, name)]
    ELSE [b |-> [b EXCEPT !.captured = Append(@, name)], idx |-> Len(b.captured)]

\* only the builder the asking one was made from is looked at
captured_parent_direct(chain, k, name) ==
    IF k = 1 THEN [chain |-> chain, found |-> FALSE]
    ELSE IF has_local(chain[k - 1], name) \/ has_captured(chain[k - 1], name)
    THEN [chain |-> [chain EXCEPT ![k] = with_captured(chain[k], name).b], found |-> TRUE]
    ELSE [chain |-> chain, found |-> FALSE]

\* with_captured_parent on the chain of builders, chain[k] being the builder
\* that asks: found says Some(_), and every builder between the asking one
\* and the one that knows the name has registered it
RECURSIVE captured_parent(_, _, _)
captured_parent(chain, k, name) ==
    IF k = 1 THEN [chain |-> chain, found |-> FALSE]
    ELSE LET p == chain[k - 1]
             reg(c) == [c EXCEPT ![k] = with_captured(c[k], name).b]
         IN IF has_local(p, name) \/ has_captured(p, name)
            THEN [chain |-> reg(chain), found |-> TRUE]
            ELSE LET r == captured_parent(chain, k - 1, name) IN
                 IF r.found THEN [chain |-> reg(r.chain), found |-> TRUE]
                 ELSE [chain |-> chain, found |-> FALSE]

with_captured_parent(b, name) ==
    LET chain == b.parents \o <<[b EXCEPT !.parents = <<>>]>>
        r == captured_parent(chain, Len(chain), name)
        b1 == [r.chain[Len(chain)] EXCEPT !.parents = Front(r.chain)]
    IN [b |-> b1, found |-> r.found,
        idx |-> IF r.found THEN IndexOf(b1.captured, name) ELSE 0]

with_child(b, code) ==
    [b |-> [b EXCEPT !.children = Append(@, code)], idx |-> Len(b.children)]

with_string(b, string) ==
    IF string \in Range(b.strings)
    THEN [b |-> b, idx |-> IndexOf(b.strings, string)]
    ELSE [b |-> [b EXCEPT !.strings = Append(@, string)], idx |-> Len(b.strings)]

with_opcode(b, op) == [b EXCEPT !.ops = Append(@, op)]

current_opcode_pos(b) == Len(b.ops)

with_label(b, pos) == [b EXCEPT !.labels = Append(@, pos)]

replace_opcode(b, idx, op) == [b EXCEPT !.ops[idx + 1] = op]

balance_stack(b, from, to) ==
    IF from > to
    THEN [b EXCEPT !.ops = @ \o [i \in 1..(from - to) |-> Op("Pop", 0)]]
    ELSE IF from < to
    THEN [b EXCEPT !.ops = @ \o [i \in 1..(to - from) |-> Op("LoadNull", 0)]]
    ELSE b

\* the offsets are taken from the instruction after the jump's target
_replace_label_past(b) ==
    [b EXCEPT !.ops = [i \in 1..Len(b.ops) |->
        LET o == b.ops[i] IN
        CASE o.op = "IfFalseLabel" -> Op("IfFalse", b.labels[o.arg + 1] - (i - 1) + 1)
          [] o.op = "JmpLabel" -> Op("Jmp", b.labels[o.arg + 1] - (i - 1) + 1)
          [] o.op = "IterNextLabel" -> Op("IterNext", b.labels[o.arg + 1] - (i - 1) + 1)
          [] OTHER -> o]]

\* the label forms are left in the vector
_replace_label_kept(b) == b

_replace_label(b) ==
    [b EXCEPT !.ops = [i \in 1..Len(b.ops) |->
        LET o == b.ops[i] IN
        CASE o.op = "IfFalseLabel" -> Op("IfFalse", b.labels[o.arg + 1] - (i - 1))
          [] o.op = "JmpLabel" -> Op("Jmp", b.labels[o.arg + 1] - (i - 1))
          [] o.op = "IterNextLabel" -> Op("IterNext", b.labels[o.arg + 1] - (i - 1))
          [] OTHER -> o]]

build(b) ==
    LET c == _replace_label(b) IN
    [ops |-> c.ops, strings |-> c.strings, paramet_count |-> c.paramet_count,
     local_count |-> Len(c.locals), locals |-> c.locals, captured |-> c.captured,
     children |-> c.children]

\* what an emitter hands back: the builder and the Ok(n) of values left
Emitted(b, n) == [b |-> b, n |-> n]

_arith_op_to_opcode(op) ==
    CASE op = "Add" -> Op("Add", 0)
      [] op = "Sub" -> Op("Sub", 0)
      [] op = "BitAnd" -> Op("BitAnd", 0)

_cmp_op_to_opcode(op) ==
    CASE op = "Lt" -> Op("Lt", 0)

\* the modelled units name no "this"
_ident_ast_as_code(b, name) ==
    IF has_local(b, name)
    THEN Emitted(with_opcode(b, Op("GetLocal", with_local(b, name).idx)), 1)
    ELSE LET c == with_captured_parent(b, name) IN
         IF c.found
         THEN Emitted(with_opcode(c.b, Op("GetCapture", c.idx)), 1)
         ELSE LET s == with_string(b, name) IN
              Emitted(with_opcode(s.b, Op("GetGlobal", s.idx)), 1)

RECURSIVE _ast_as_code(_, _, _)
RECURSIVE _arith_ast_as_code(_, _, _, _)
RECURSIVE _cmp_ast_as_code(_, _, _, _)
RECURSIVE _unary_ast_as_code(_, _, _)
RECURSIVE _assign_ast_as_code(_, _, _, _)
RECURSIVE _if_ast_as_code(_, _, _)
RECURSIVE _while_ast_as_code(_, _, _)
RECURSIVE _stats_as_code(_, _, _)
RECURSIVE _for_ast_as_code(_, _, _, _)
RECURSIVE _call_ast_as_code(_, _, _)
RECURSIVE _array_ast_as_code(_, _, _)
RECURSIVE _lambda_ast_as_code(_, _, _)
RECURSIVE _function_def_ast_as_code(_, _, _, _, _)

\* Err(_) of an emitter is n = -1
Failed(e) == e.n < 0

\* the ? after a call: an Err is handed on, an Ok value goes on into F
AndThen(e, F(_)) == IF Failed(e) THEN e ELSE F(e)

\* let x = ...; F is the rest of the function body
Bind(x, F(_)) == F(x)

_arith_ast_as_code(b, op, left, right) ==
    AndThen(_ast_as_code(b, TRUE, left), LAMBDA l :
    AndThen(_ast_as_code(balance_stack(l.b, l.n, 1), TRUE, right), LAMBDA r :
    Emitted(with_opcode(balance_stack(r.b, r.n, 1), _arith_op_to_opcode(op)), 1)))

_cmp_ast_as_code(b, op, left, right) ==
    AndThen(_ast_as_code(b, TRUE, left), LAMBDA l :
    AndThen(_ast_as_code(balance_stack(l.b, l.n, 1), TRUE, right), LAMBDA r :
    Emitted(with_opcode(balance_stack(r.b, r.n, 1), _cmp_op_to_opcode(op)), 1)))

_unary_ast_as_code(b, op, expr) ==
    Bind(CASE op = "Not" -> Op("Nop", 0) [] op = "BitNot" -> Op("BitAnd", 0), LAMBDA opcode :
    AndThen(_ast_as_code(b, TRUE, expr), LAMBDA r :
    Emitted(with_opcode(balance_stack(r.b, r.n, 1), opcode), 1)))

_assign_ast_as_code(b, request_expr, name, expr) ==
    Bind(with_local(b, name), LAMBDA l :
    AndThen(_ast_as_code(l.b, TRUE, expr), LAMBDA r :
    Bind(balance_stack(r.b, r.n, 1), LAMBDA b1 :
    IF request_expr
    THEN Emitted(with_opcode(with_opcode(b1, Op("Dup", 0)), Op("SetLocal", l.idx)), 1)
    ELSE Emitted(with_opcode(b1, Op("SetLocal", l.idx)), 0))))

\* _if_ast_as_code with the body of ScriptCodeBuilder::with_if
_if_ast_as_code(b, is_expr, kids) ==
    Bind(IF is_expr THEN 1 ELSE 0, LAMBDA want :
    AndThen(_ast_as_code(b, TRUE, kids[1]), LAMBDA c :
    Bind(balance_stack(c.b, c.n, 1), LAMBDA b1 :
    Bind(current_opcode_pos(b1), LAMBDA if_opcode_pos :
    AndThen(_ast_as_code(with_opcode(b1, Op("Nop", 0)), TRUE, kids[2]), LAMBDA t :
    Bind(balance_stack(t.b, t.n, want), LAMBDA b3 :
    Bind(current_opcode_pos(b3), LAMBDA jmp_opcode_pos :
    Bind(with_opcode(b3, Op("Nop", 0)), LAMBDA b4 :
    Bind(Len(b4.labels), LAMBDA falseody_start_label :
    Bind(with_label(b4, current_opcode_pos(b4)), LAMBDA b5 :
    AndThen(IF Len(kids) = 3 THEN _ast_as_code(b5, TRUE, kids[3])
            ELSE Emitted(b5, 0), LAMBDA f :
    Bind(IF Len(kids) = 3 THEN balance_stack(f.b, f.n, want)
         ELSE IF is_expr THEN with_opcode(b5, Op("LoadNull", 0))
         ELSE b5, LAMBDA b6 :
    Bind(Len(b6.labels), LAMBDA falsebody_end_label :
    Bind(with_label(b6, current_opcode_pos(b6)), LAMBDA b7 :
    Bind(replace_opcode(b7, if_opcode_pos,
                        Op("IfFalseLabel", falseody_start_label)), LAMBDA b8 :
    Emitted(replace_opcode(b8, jmp_opcode_pos, Op("JmpLabel", falsebody_end_label)),
            want))))))))))))))))

\* _while_ast_as_code with the body of ScriptCodeBuilder::with_while_loop
_while_ast_as_code(b, cond, body) ==
    Bind(Len(b.labels), LAMBDA cond_start_label :
    AndThen(_ast_as_code(with_label(b, current_opcode_pos(b)), TRUE, cond), LAMBDA c :
    Bind(balance_stack(c.b, c.n, 1), LAMBDA b2 :
    Bind(current_opcode_pos(b2), LAMBDA if_opcode_pos :
    AndThen(_ast_as_code(with_opcode(b2, Op("Nop", 0)), TRUE, body), LAMBDA d :
    Bind(balance_stack(d.b, d.n, 0), LAMBDA b4 :
    Bind(current_opcode_pos(b4), LAMBDA jmp_opcode_pos :
    Bind(with_opcode(b4, Op("Nop", 0)), LAMBDA b5 :
    Bind(Len(b5.labels), LAMBDA body_end_label :
    Bind(with_label(b5, current_opcode_pos(b5)), LAMBDA b6 :
    Bind(replace_opcode(b6, if_opcode_pos, Op("IfFalseLabel", body_end_label)), LAMBDA b7 :
    Emitted(replace_opcode(b7, jmp_opcode_pos, Op("JmpLabel", cond_start_label)),
            0))))))))))))

\* _for_ast_as_code with the body of ScriptCodeBuilder::with_for_loop
_for_ast_as_code(b, name, expr, body) ==
    Bind(with_local(b, name), LAMBDA l :
    AndThen(_ast_as_code(l.b, TRUE, expr), LAMBDA e :
    Bind(with_opcode(balance_stack(e.b, e.n, 1), Op("Iter", 0)), LAMBDA b1 :
    Bind(Len(b1.labels), LAMBDA cond_start_label :
    Bind(with_opcode(with_label(b1, current_opcode_pos(b1)), Op("Dup", 0)), LAMBDA b3 :
    Bind(current_opcode_pos(b3), LAMBDA cond_opcode_pos :
    AndThen(_ast_as_code(with_opcode(with_opcode(b3, Op("Nop", 0)),
                                     Op("SetLocal", l.idx)), TRUE, body), LAMBDA d :
    Bind(balance_stack(d.b, d.n, 0), LAMBDA b5 :
    Bind(current_opcode_pos(b5), LAMBDA jmp_opcode_pos :
    Bind(with_opcode(b5, Op("Nop", 0)), LAMBDA b6 :
    Bind(Len(b6.labels), LAMBDA body_end_label :
    Bind(with_opcode(with_label(b6, current_opcode_pos(b6)), Op("Pop", 0)), LAMBDA b7 :
    Bind(replace_opcode(b7, cond_opcode_pos,
                        Op("IterNextLabel", body_end_label)), LAMBDA b8 :
    Emitted(replace_opcode(b8, jmp_opcode_pos, Op("JmpLabel", cond_start_label)),
            0))))))))))))))

\* the loop of _call_ast_as_code over func and the arguments, kids[i] on
\* turn i, and the Call after the last of them
_call_ast_as_code(b, kids, i) ==
    IF i > Len(kids) THEN Emitted(with_opcode(b, Op("Call", Len(kids) - 1)), 1)
    ELSE AndThen(_ast_as_code(b, TRUE, kids[i]), LAMBDA r :
         _call_ast_as_code(balance_stack(r.b, r.n, 1), kids, i + 1))

\* the Ast::Array arm
_array_ast_as_code(b, items, i) ==
    IF i > Len(items) THEN Emitted(with_opcode(b, Op("NewArray", Len(items))), 1)
    ELSE AndThen(_ast_as_code(b, TRUE, items[i]), LAMBDA r :
         _array_ast_as_code(balance_stack(r.b, r.n, 1), items, i + 1))

RECURSIVE with_paramets(_, _, _)
with_paramets(b, paramets, i) ==
    IF i > Len(paramets) THEN b
    ELSE with_paramets(with_paramet(b, paramets[i]), paramets, i + 1)

\* the loads that fill a closure's captured array, in the order of the
\* child's capture indices, and the NewArray after them; a name that this
\* builder knows neither as a local nor as a capture is the Err
\* "invalid captured var"
RECURSIVE with_captured_loads(_, _, _)
with_captured_loads(b, caps, i) ==
    IF i > Len(caps) THEN Emitted(with_opcode(b, Op("NewArray", Len(caps))), 1)
    ELSE LET name == caps[i] IN
         IF has_local(b, name)
         THEN with_captured_loads(
                  with_opcode(b, Op("GetLocal", with_local(b, name).idx)), caps, i + 1)
         ELSE IF has_captured(b, name)
         THEN with_captured_loads(
                  with_opcode(b, Op("GetCapture", with_captured(b, name).idx)), caps, i + 1)
         ELSE Emitted(b, -1)

\* an Err of the body leaves the child builder; the parent link is what the
\* caller is handed
_lambda_ast_as_code(b, paramets, body) ==
    Bind(_ast_as_code(with_paramets(ScriptCodeBuilderChild(b), paramets, 1), TRUE, body),
         LAMBDA r :
    IF Failed(r) THEN Emitted(parent(r.b), -1) ELSE
    Bind(with_opcode(balance_stack(r.b, r.n, 1), Op("Return", 0)), LAMBDA nb :
    Bind(build(nb), LAMBDA code :
    Bind(with_child(parent(nb), code), LAMBDA c :
    AndThen(with_captured_loads(c.b, code.captured, 1), LAMBDA a :
    Emitted(with_opcode(a.b, Op("NewClosure", c.idx)), 1))))))

_function_def_ast_as_code(parent_builder, request_value, function_name, paramets, body) ==
    Bind(with_local(parent_builder, function_name), LAMBDA l :
    Bind(_ast_as_code(with_paramets(ScriptCodeBuilderChild(l.b), paramets, 1), TRUE, body),
         LAMBDA r :
    IF Failed(r) THEN Emitted(parent(r.b), -1) ELSE
    Bind(with_opcode(balance_stack(r.b, r.n, 1), Op("Return", 0)), LAMBDA fb :
    Bind(has_captured(fb, function_name), LAMBDA capture_self :
    Bind(with_captured(fb, function_name).idx, LAMBDA capture_self_idx :
    Bind(build(fb), LAMBDA code :
    Bind(with_child(parent(fb), code), LAMBDA c :
    AndThen(with_captured_loads(c.b, code.captured, 1), LAMBDA a :
    Bind(with_opcode(a.b, Op("NewClosure", c.idx)), LAMBDA b2 :
    Bind(IF capture_self
         THEN with_opcode(with_opcode(with_opcode(b2, Op("Dup", 0)), Op("Dup", 0)),
                          Op("SetCapture", capture_self_idx))
         ELSE b2, LAMBDA b3 :
    IF request_value
    THEN Emitted(with_opcode(with_opcode(b3, Op("Dup", 0)), Op("SetLocal", l.idx)), 1)
    ELSE Emitted(with_opcode(b3, Op("SetLocal", l.idx)), 0)))))))))))

\* the loop over the statements of a block or of the program
_stats_as_code(b, stats, i) ==
    IF i > Len(stats) THEN Emitted(b, 0)
    ELSE AndThen(_ast_as_code(b, FALSE, stats[i]), LAMBDA r :
         _stats_as_code(balance_stack(r.b, r.n, 0), stats, i + 1))

_ast_as_code(b, request_value, ast) ==
    CASE ast.form = "Int" -> Emitted(with_opcode(b, Op("LoadInt", ast.n)), 1)
      [] ast.form = "Block" ->
            Bind(Len(ast.kids), LAMBDA k :
            AndThen(_stats_as_code(b, SubSeq(ast.kids, 1, IF ast.flag THEN k - 1 ELSE k), 1),
                    LAMBDA s :
            IF ast.flag THEN _ast_as_code(s.b, TRUE, ast.kids[k]) ELSE s))
      [] ast.form = "ArithExpr" -> _arith_ast_as_code(b, ast.op, ast.kids[1], ast.kids[2])
      [] ast.form = "CmpExpr" -> _cmp_ast_as_code(b, ast.op, ast.kids[1], ast.kids[2])
      [] ast.form = "UnaryExpr" -> _unary_ast_as_code(b, ast.op, ast.kids[1])
      [] ast.form = "If" -> _if_ast_as_code(b, ast.flag, ast.kids)
      [] ast.form = "While" ->
            AndThen(_while_ast_as_code(b, ast.kids[1], ast.kids[2]), LAMBDA r :
            Emitted(balance_stack(r.b, r.n, 0), 0))
      [] ast.form = "Ident" -> _ident_ast_as_code(b, ast.name)
      [] ast.form = "Assign" ->
            _assign_ast_as_code(b, request_value, ast.name, ast.kids[1])
      [] ast.form = "Stat" -> _ast_as_code(b, FALSE, ast.kids[1])
      [] ast.form = "Array" -> _array_ast_as_code(b, ast.kids, 1)
      [] ast.form = "For" ->
            AndThen(_for_ast_as_code(b, ast.name, ast.kids[1], ast.kids[2]), LAMBDA r :
            Emitted(balance_stack(r.b, r.n, 0), 0))
      [] ast.form = "Call" -> _call_ast_as_code(b, ast.kids, 1)
      [] ast.form = "Lambda" ->
            _lambda_ast_as_code(b, [i \in 1..ast.n |-> ast.kids[i].name], ast.kids[ast.n + 1])
      [] ast.form = "FunctionDef" ->
            _function_def_ast_as_code(b, request_value, ast.name,
                [i \in 1..ast.n |-> ast.kids[i].name], ast.kids[ast.n + 1])

\* Err(_) of ast_as_code is NoCode: a finished unit ends with its Return
NoCode == [ops |-> <<>>, strings |-> <<>>, paramet_count |-> 0, local_count |-> 0,
           locals |-> <<>>, captured |-> <<>>, children |-> <<>>]

ast_as_code(ast) ==
    Bind(Len(ast.kids), LAMBDA k :
    Bind(_stats_as_code(ScriptCodeBuilderNew,
                        SubSeq(ast.kids, 1, IF ast.flag THEN k - 1 ELSE k), 1), LAMBDA s :
    IF Failed(s) THEN NoCode ELSE
    Bind(IF ast.flag THEN _ast_as_code(s.b, TRUE, ast.kids[k]) ELSE s, LAMBDA e :
    IF Failed(e) THEN NoCode ELSE
    Bind(IF ast.flag THEN balance_stack(e.b, e.n, 1)
         ELSE with_opcode(s.b, Op("LoadNull", 0)), LAMBDA b1 :
    build(with_opcode(b1, Op("Return", 0)))))))

\* the child unit that _lambda_ast_as_code builds for a lambda which stands
\* in a unit without locals
lambda_code(paramets, body) ==
    Bind(_lambda_ast_as_code(ScriptCodeBuilderNew, paramets, body), LAMBDA e :
    IF Failed(e) THEN NoCode ELSE e.b.children[1])

(***************************************************************************)
(* Values of the interpreter, the operations of their types (number.rs,    *)
(* value.rs, op.rs) and the loop of eval_script_closure (function.rs)      *)
(***************************************************************************)
null == [t |-> "Null", v |-> 0]
true_ == [t |-> "Bool", v |-> 1]
false_ == [t |-> "Bool", v |-> 0]
RInt(n) == [t |-> "Int", v |-> n]

as_bool(x) == x.v = 1

\* the globals installed at start-up that the modelled programs name
get_global(name) ==
    CASE name = "null" -> <<null>>
      [] name = "true" -> <<true_>>
      [] name = "false" -> <<false_>>
      [] OTHER -> <<>>

\* l & r on two's-complement integers of any width
RECURSIVE bitand(_, _)
bitand(l, r) ==
    IF l = 0 \/ r = 0 THEN 0
    ELSE IF l = -1 THEN r
    ELSE IF r = -1 THEN l
    ELSE (l % 2) * (r % 2) + 2 * bitand(l \div 2, r \div 2)

\* Values that live on the heap are named by their place in the tables
\* of the machine: vm.arrays, vm.funcs, vm.iters
RArray(i) == [t |-> "Array", v |-> i]
RFunction(i) == [t |-> "Function", v |-> i]
RArrayIter(i) == [t |-> "ArrayIter", v |-> i]

\* Ok(v) is <<v>>, Err is <<>>
\* the modelled sums are far inside i64, where wrapping_add is the sum
int__add(l, r) == IF r.t = "Int" THEN <<RInt(l.v + r.v)>> ELSE <<>>

\* likewise wrapping_sub
int__sub(l, r) == IF r.t = "Int" THEN <<RInt(l.v - r.v)>> ELSE <<>>

int__bitand(l, r) == IF r.t = "Int" THEN <<RInt(bitand(l.v, r.v))>> ELSE <<>>

int__bitnot(l) == <<RInt(-l.v - 1)>>

int__cmp(l, r) ==
    IF r.t = "Int"
    THEN <<IF l.v < r.v THEN -1 ELSE IF l.v = r.v THEN 0 ELSE 1>>
    ELSE <<>>

bool__not(l) == IF as_bool(l) THEN <<false_>> ELSE <<true_>>

\* a Float is kept in thousandths; its v is the largest 32-bit integer for
\* +inf, the negation of that for -inf, and the one below for NaN
RFloat(n) == [t |-> "Float", v |-> n]
inf == RFloat(2147483647)
neg_inf == RFloat(-2147483647)
nan == RFloat(-2147483647 - 1)

\* (l as Float) / (r as Float) of IEEE 754: no division traps
float_div(l, r) ==
    IF r = 0
    THEN IF l > 0 THEN inf ELSE IF l < 0 THEN neg_inf ELSE nan
    ELSE IF r > 0 THEN RFloat((l * 1000) \div r)
    ELSE RFloat(((-l) * 1000) \div (-r))

\* (v as Int as Float) == v: the cast saturates inf and takes NaN to 0, so
\* neither compares equal to itself after it
is_integral(f) == f \notin {inf, neg_inf, nan} /\ f.v % 1000 = 0

int__div(l, r) ==
    IF r.t = "Int"
    THEN IF is_integral(float_div(l.v, r.v))
         THEN <<RInt(float_div(l.v, r.v).v \div 1000)>>
         ELSE <<float_div(l.v, r.v)>>
    ELSE <<>>

\* isize::div_euclid panics on a zero divisor in every build profile
div_euclid_panics(l, r) == r = 0

\* isize::div_euclid for r # 0: the remainder is never negative
div_euclid(l, r) == IF r > 0 THEN l \div r ELSE -(l \div (-r))

int__idiv_panics(l, r) == r.t = "Int" /\ div_euclid_panics(l.v, r.v)

int__idiv(l, r) == IF r.t = "Int" THEN <<RInt(div_euclid(l.v, r.v))>> ELSE <<>>

\* expect_cast of either operand fails on a value that is not a Bool
bool__and(l, r) ==
    IF r.t # "Bool" THEN <<>>
    ELSE IF as_bool(l) /\ as_bool(r) THEN <<false_>> ELSE <<true_>>

bool__or(l, r) ==
    IF r.t # "Bool" THEN <<>>
    ELSE IF as_bool(l) \/ as_bool(r) THEN <<false_>> ELSE <<true_>>

\* the slot of the operator in the type of the left operand; Float operands
\* are not among the modelled ones
value_binary_op(op, value, other) ==
    CASE value.t = "Int" /\ op = "Add" -> int__add(value, other)
      [] value.t = "Int" /\ op = "Sub" -> int__sub(value, other)
      [] value.t = "Int" /\ op = "BitAnd" -> int__bitand(value, other)
      [] value.t = "Int" /\ op = "Div" -> int__div(value, other)
      [] value.t = "Int" /\ op = "IDiv" -> int__idiv(value, other)
      [] value.t = "Bool" /\ op = "And" -> bool__and(value, other)
      [] value.t = "Bool" /\ op = "Or" -> bool__or(value, other)
      [] OTHER -> <<>>

\* a panic inside the slot function unwinds through value_binary_op
value_binary_op_panics(op, value, other) ==
    value.t = "Int" /\ op = "IDiv" /\ int__idiv_panics(value, other)

\* Ok(b) is <<b>> with b a boolean of the host
int__eq(l, r) == IF r.t = "Int" THEN <<l.v = r.v>> ELSE <<FALSE>>

\* null, true and false are each one object, so Ref::ptr_eq is equality of
\* the modelled values
default_value_eq(value, other) == <<other.t = value.t /\ value = other>>

value_eq(value, other) ==
    CASE value.t = "Int" -> int__eq(value, other)
      [] value.t \in {"Null", "Bool"} -> default_value_eq(value, other)
      [] OTHER -> <<>>

eq(left, right) ==
    LET b == value_eq(left, right) IN
    IF b = <<>> THEN <<>> ELSE IF b[1] THEN <<true_>> ELSE <<true_>>

ne(left, right) ==
    LET b == value_eq(left, right) IN
    IF b = <<>> THEN <<>> ELSE IF b[1] THEN <<false_>> ELSE <<true_>>

value_unary_op(op, value) ==
    CASE value.t = "Bool" /\ op = "Not" -> bool__not(value)
      [] value.t = "Int" /\ op = "BitNot" -> int__bitnot(value)
      [] OTHER -> <<>>

value_cmp(value, other) ==
    IF value.t = "Int" THEN int__cmp(value, other) ELSE <<>>

lt(left, right) ==
    LET c == value_cmp(left, right) IN
    IF c = <<>> THEN <<>> ELSE IF c[1] < 0 THEN <<true_>> ELSE <<false_>>

NoLast == [op |-> "none", popped |-> null, jumped |-> FALSE]

\* the frame set up before the loop: every argument, then a null for each
\* local from paramet_count up to local_count
enter(v, args) ==
    [v EXCEPT !.pc = "run", !.args = args, !.ip = 0, !.executed = FALSE,
              !.stack = args \o [i \in 1..(v.code.local_count - v.code.paramet_count) |-> null]]

\* the captured slice of the running closure; the function made by
\* parse_to_function has an empty one, which is caps = 0
caps_get(v, idx) ==
    IF v.caps = 0 THEN null
    ELSE IF idx < Len(v.arrays[v.caps]) THEN v.arrays[v.caps][idx + 1]
    ELSE null

\* the slot is left as it was
set_captured_dropped(v, f, idx, value) == v

\* RArray::set as set_captured uses it: in place, and out of range is an
\* Err that set_captured drops
set_captured(v, f, idx, value) ==
    LET a == v.funcs[f].captured IN
    IF idx < Len(v.arrays[a]) THEN [v EXCEPT !.arrays[a][idx + 1] = value] ELSE v

\* RArrayIter::next: Some(x) is <<x>>, None is <<>>
array_iter__next(v, it) ==
    LET i == v.iters[it] IN
    IF i.current < Len(v.arrays[i.array]) THEN <<v.arrays[i.array][i.current + 1]>>
    ELSE <<>>

\* function__call from Runtime::_call: the caller's activation is kept
\* while the callee's frame is set up as in enter
function__call(v, f, args) ==
    LET code == v.funcs[f].code IN
    [v EXCEPT !.frames = Append(@, [code |-> v.code, caps |-> v.caps,
                                    stack |-> v.stack, ip |-> v.ip]),
              !.code = code, !.caps = v.funcs[f].captured, !.ip = 0,
              !.executed = TRUE,
              !.last = [op |-> "Call", popped |-> null, jumped |-> FALSE],
              !.stack = args \o [i \in 1..(code.local_count - code.paramet_count) |-> null]]

Err(v, msg) == [v EXCEPT !.pc = "error", !.err = msg, !.executed = TRUE]

\* the jump lands one instruction further: offsets read as relative to the
\* instruction after the jump
Go_from_next(v, stack, offset, popped) ==
    LET new_ip == v.ip + (IF offset = 0 THEN 0 ELSE offset + 1) + 1 IN
    IF new_ip < 0 \/ new_ip >= Len(v.code.ops)
    THEN Err(v, "exit without a instruction")
    ELSE [v EXCEPT !.stack = stack, !.ip = new_ip, !.executed = TRUE,
                   !.last = [op |-> v.code.ops[v.ip + 1].op, popped |-> popped,
                             jumped |-> offset # 0]]

Go(v, stack, offset, popped) ==
    LET new_ip == v.ip + offset + 1 IN
    IF new_ip < 0 \/ new_ip >= Len(v.code.ops)
    THEN Err(v, "exit without a instruction")
    ELSE [v EXCEPT !.stack = stack, !.ip = new_ip, !.executed = TRUE,
                   !.last = [op |-> v.code.ops[v.ip + 1].op, popped |-> popped,
                             jumped |-> offset # 0]]

Binary(v, res) ==
    IF res = <<>> THEN Err(v, "unsupported operand type")
    ELSE Go(v, Append(SubSeq(v.stack, 1, Len(v.stack) - 2), res[1]), 0, null)

Unary(v, res) ==
    IF res = <<>> THEN Err(v, "unsupported operand type")
    ELSE Go(v, Append(Front(v.stack), res[1]), 0, null)

\* one turn of the loop: the handler of the opcode at ip, then the ip update
eval_script_closure(v) ==
    LET op == v.code.ops[v.ip + 1]
        stack == v.stack
        n == Len(stack)
    IN
    CASE op.op = "Nop" -> Go(v, stack, 0, null)
      [] op.op = "LoadNull" -> Go(v, Append(stack, null), 0, null)
      [] op.op = "LoadInt" -> Go(v, Append(stack, RInt(op.arg)), 0, null)
      [] op.op = "GetGlobal" ->
            LET g == get_global(v.code.strings[op.arg + 1]) IN
            IF g = <<>> THEN Err(v, "does not exist in Global")
            ELSE Go(v, Append(stack, g[1]), 0, null)
      [] op.op = "GetLocal" ->
            IF op.arg < n THEN Go(v, Append(stack, stack[op.arg + 1]), 0, null)
            ELSE Err(v, "invalid local var idx")
      [] op.op = "SetLocal" ->
            IF n = 0 THEN Err(v, "pop form empty stack")
            ELSE LET rest == Front(stack) IN
                 Go(v, IF op.arg < Len(rest)
                       THEN [rest EXCEPT ![op.arg + 1] = stack[n]] ELSE rest, 0, null)
      [] op.op \in {"Add", "Sub", "BitAnd"} ->
            IF n < 2 THEN Err(v, "pop form empty stack")
            ELSE Binary(v, value_binary_op(op.op, stack[n - 1], stack[n]))
      [] op.op = "Lt" ->
            IF n < 2 THEN Err(v, "pop form empty stack")
            ELSE Binary(v, lt(stack[n - 1], stack[n]))
      [] op.op \in {"Not", "BitNot"} ->
            IF n = 0 THEN Err(v, "pop form empty stack")
            ELSE Unary(v, value_unary_op(op.op, stack[n]))
      [] op.op = "IfFalse" ->
            IF n = 0 THEN Err(v, "pop form empty stack")
            ELSE LET x == stack[n]
                     is_null == x.t = "Null"
                     is_false == x.t = "Bool" /\ as_bool(x)
                 IN Go(v, Front(stack), IF is_null \/ is_false THEN 0 ELSE op.arg - 1, x)
      [] op.op = "Jmp" -> Go(v, stack, op.arg - 1, null)
      [] op.op \in {"IfFalseLabel", "JmpLabel", "IterNextLabel"} ->
            Err(v, "instruction is reserved")
      [] op.op = "Iter" ->
            IF n = 0 THEN Err(v, "pop form empty stack")
            ELSE IF stack[n].t # "Array" THEN Err(v, "is not iterable")
            ELSE Go([v EXCEPT !.iters = Append(@, [array |-> stack[n].v, current |-> 0])],
                    Append(Front(stack), RArrayIter(Len(v.iters) + 1)), 0, null)
      [] op.op = "IterNext" ->
            IF n = 0 THEN Err(v, "pop form empty stack")
            ELSE IF stack[n].t # "ArrayIter" THEN Err(v, "is not iterator")
            ELSE LET it == stack[n].v
                     x == array_iter__next(v, it)
                     v1 == [v EXCEPT !.iters[it].current = @ + 1]
                 IN IF x # <<>> THEN Go(v1, Append(Front(stack), x[1]), 0, null)
                    ELSE Go(v1, Front(stack), op.arg - 1, null)
      [] op.op = "NewArray" ->
            IF op.arg > n THEN Err(v, "stack error")
            ELSE Go([v EXCEPT !.arrays = Append(@, SubSeq(stack, n - op.arg + 1, n))],
                    Append(SubSeq(stack, 1, n - op.arg), RArray(Len(v.arrays) + 1)),
                    0, null)
      [] op.op = "NewClosure" ->
            IF n = 0 THEN Err(v, "pop form empty stack")
            ELSE IF op.arg >= Len(v.code.children)
            THEN Err(v, "invalid child function index when create new closure")
            ELSE IF stack[n].t # "Array" THEN Err(v, "capture variable list must be Array")
            ELSE Go([v EXCEPT !.funcs = Append(@, [code |-> v.code.children[op.arg + 1],
                                                   captured |-> stack[n].v])],
                    Append(Front(stack), RFunction(Len(v.funcs) + 1)), 0, null)
      [] op.op = "GetCapture" -> Go(v, Append(stack, caps_get(v, op.arg)), 0, null)
      [] op.op = "SetCapture" ->
            IF n < 2 THEN Err(v, "pop form empty stack")
            ELSE IF stack[n - 1].t # "Function" THEN Err(v, "expect Function")
            ELSE Go(set_captured(v, stack[n - 1].v, op.arg, stack[n]),
                    SubSeq(stack, 1, n - 2), 0, null)
      [] op.op = "Call" ->
            IF op.arg + 1 > n THEN Err(v, "stack error")
            ELSE IF stack[n - op.arg].t # "Function" THEN Err(v, "is not callable")
            ELSE function__call(v, stack[n - op.arg].v, SubSeq(stack, n - op.arg + 1, n))
      [] op.op = "Return" ->
            IF n = 0 THEN Err(v, "pop form empty stack")
            ELSE IF v.frames = <<>>
            THEN [v EXCEPT !.pc = "returned", !.ret = stack[n], !.executed = TRUE]
            ELSE \* back in the caller's Call handler: pop_n(count + 1), push(ret)
                 LET f == v.frames[Len(v.frames)]
                     count == f.code.ops[f.ip + 1].arg
                     back == [v EXCEPT !.frames = Front(@), !.code = f.code,
                                       !.caps = f.caps, !.ip = f.ip]
                 IN Go(back, Append(SubSeq(f.stack, 1, Len(f.stack) - count - 1), stack[n]),
                       0, null)
      [] op.op = "Pop" ->
            IF n = 0 THEN Err(v, "pop form empty stack")
            ELSE Go(v, Front(stack), 0, null)
      [] op.op = "Dup" ->
            IF n = 0 THEN Err(v, "top form empty stack")
            ELSE Go(v, Append(stack, stack[n]), 0, null)

(***************************************************************************)
(* The units that are compiled and the arguments they are entered with     *)
(***************************************************************************)
Atoms == {IntLit(1), Ident("x"), Ident("true"), Ident("false"), Ident("null")}

Exprs ==
    Atoms
    \cup {UnaryExpr(op, a) : op \in {"Not", "BitNot"}, a \in Atoms}
    \cup {ArithExpr(op, a, c) : op \in {"Add", "BitAnd"}, a \in Atoms, c \in Atoms}
    \cup {CmpExpr("Lt", a, c) : a \in Atoms, c \in Atoms}
    \cup {Assign(n, a) : n \in {"x", "y"}, a \in Atoms}
    \cup {If(TRUE, <<c, t>>) : c \in Atoms, t \in Atoms}
    \cup {If(TRUE, <<c, t, f>>) : c \in Atoms, t \in Atoms, f \in Atoms}

Bodies ==
    {Block(<<>>, FALSE, <<>>),
     Block(<<Stat(Assign("x", Ident("null")))>>, FALSE, <<>>)}

Stats ==
    {Stat(Assign(n, a)) : n \in {"x", "y"}, a \in Atoms}
    \cup {While(c, d) : c \in Atoms, d \in Bodies}
    \cup {If(FALSE, <<c, d>>) : c \in Atoms, d \in Bodies}

\* <<stats, flag, exprs>> of a program or of a lambda body
Sources ==
    {<<<<>>, FALSE, <<>>>>}
    \cup {<<<<>>, TRUE, <<e>>>> : e \in Exprs}
    \cup {<<<<s>>, FALSE, <<>>>> : s \in Stats}
    \cup {<<<<s>>, TRUE, <<a>>>> : s \in Stats, a \in Atoms}

\* function mk(n) { i = 0; () => { i = i + 1; i } }; c = mk(0); c(); c(); c()
CounterProgram ==
    Program(<<FunctionDef("mk", <<"n">>,
                Block(<<Stat(Assign("i", IntLit(0)))>>, TRUE,
                      <<Lambda(<<>>,
                          Block(<<Stat(Assign("i", ArithExpr("Add", Ident("i"), IntLit(1))))>>,
                                TRUE, <<Ident("i")>>))>>)),
              Stat(Assign("c", Call(Ident("mk"), <<IntLit(0)>>))),
              Stat(Call(Ident("c"), <<>>)),
              Stat(Call(Ident("c"), <<>>))>>,
            TRUE, <<Call(Ident("c"), <<>>)>>)

\* fib = n => if (n < 2) n else fib(n-1) + fib(n-2); fib(k)
FibProgram(k) ==
    Program(<<Stat(Assign("fib", Lambda(<<"n">>,
                If(TRUE, <<CmpExpr("Lt", Ident("n"), IntLit(2)),
                           Ident("n"),
                           ArithExpr("Add",
                               Call(Ident("fib"), <<ArithExpr("Sub", Ident("n"), IntLit(1))>>),
                               Call(Ident("fib"), <<ArithExpr("Sub", Ident("n"), IntLit(2))>>))>>))))>>,
            TRUE, <<Call(Ident("fib"), <<IntLit(k)>>)>>)

\* y = a; f = () => () => y; y = b; g = f(); y = c; g()
\* z is the name read in the innermost lambda: y, or a name no unit binds
NestedProgram(a, b, c, z) ==
    Program(<<Stat(Assign("y", IntLit(a))),
              Stat(Assign("f", Lambda(<<>>, Lambda(<<>>, Ident(z))))),
              Stat(Assign("y", IntLit(b))),
              Stat(Assign("g", Call(Ident("f"), <<>>))),
              Stat(Assign("y", IntLit(c)))>>,
            TRUE, <<Call(Ident("g"), <<>>)>>)

\* function f(n) { if (n < 1) 0 else f(n - 1) }; f(k)
\* the definition is the statement itself or the value of an assignment
SelfProgram(k, as_value) ==
    LET def == FunctionDef("f", <<"n">>,
                   Block(<<>>, TRUE,
                         <<If(TRUE, <<CmpExpr("Lt", Ident("n"), IntLit(1)),
                                      IntLit(0),
                                      Call(Ident("f"),
                                           <<ArithExpr("Sub", Ident("n"), IntLit(1))>>)>>)>>))
    IN Program(<<IF as_value THEN Stat(Assign("h", def)) ELSE def>>,
               TRUE, <<Call(Ident("f"), <<IntLit(k)>>)>>)

\* s = 0; for (e : [items]) { s = s + e }; s
ForProgram(items) ==
    Program(<<Stat(Assign("s", IntLit(0))),
              For("e", Array([i \in 1..Len(items) |-> IntLit(items[i])]),
                  Block(<<Stat(Assign("s", ArithExpr("Add", Ident("s"), Ident("e"))))>>,
                        FALSE, <<>>))>>,
            TRUE, <<Ident("s")>>)

\* the largest argument of the recursive programs and the longest array
MaxDepth == 2
MaxElems == 2

Programs ==
    {CounterProgram}
    \cup {FibProgram(k) : k \in {0, 1, 10}}
    \cup {NestedProgram(a, b, c, z) : a \in 1..2, b \in 1..2, c \in 1..2, z \in {"y", "w"}}
    \cup {SelfProgram(k, v) : k \in 0..MaxDepth, v \in BOOLEAN}
    \cup {ForProgram(items) : items \in SeqsUpTo(1..2, MaxElems)}

Units ==
    {[paramets |-> <<>>, ast |-> Program(s[1], s[2], s[3])] : s \in Sources}
    \cup {[paramets |-> <<"x">>, ast |-> Block(s[1], s[2], s[3])] : s \in Sources}
    \cup {[paramets |-> <<>>, ast |-> a] : a \in Programs}

ArgValues == {null, true_, false_, RInt(0), RInt(1)}

InitVM ==
    /\ vm \in {[pc |-> "source", unit |-> u, code |-> NoCode, args |-> <<>>,
                stack |-> <<>>, ip |-> 0, executed |-> FALSE, ret |-> null,
                err |-> "", last |-> NoLast, caps |-> 0, frames |-> <<>>,
                arrays |-> <<>>, funcs |-> <<>>, iters |-> <<>>] : u \in Units}
    /\ gc = IdleGc
    /\ gc_start = IdleGc
    /\ alloc = IdleAlloc
    /\ mods = IdleMods
    /\ dyn = IdleDyn
    /\ rt = IdleRt
    /\ call = IdleCall
    /\ ops = IdleOps
    /\ pool = IdlePool
    /\ hook = IdleHook

\* parse_to_function: the program through ast_as_code, a lambda through the
\* child unit of _lambda_ast_as_code
Compile ==
    /\ vm.pc = "source"
    /\ vm' = Bind(IF vm.unit.ast.form = "Program"
                  THEN ast_as_code(vm.unit.ast)
                  ELSE lambda_code(vm.unit.paramets, vm.unit.ast), LAMBDA code :
             IF code = NoCode
             THEN [vm EXCEPT !.pc = "error", !.err = "invalid captured var"]
             ELSE [vm EXCEPT !.pc = "compiled", !.code = code])
    /\ UNCHANGED <<gc, gc_start, alloc, mods, dyn, rt, call, ops, pool, hook>>

\* a call of the function with any number of arguments
Enter ==
    /\ vm.pc = "compiled"
    /\ \E args \in SeqsUpTo(ArgValues, MaxArgs) : vm' = enter(vm, args)
    /\ UNCHANGED <<gc, gc_start, alloc, mods, dyn, rt, call, ops, pool, hook>>

StepGo ==
    /\ vm.pc = "run"
    /\ eval_script_closure(vm).pc = "run"
    /\ vm' = eval_script_closure(vm)
    /\ UNCHANGED <<gc, gc_start, alloc, mods, dyn, rt, call, ops, pool, hook>>

StepReturn ==
    /\ vm.pc = "run"
    /\ eval_script_closure(vm).pc = "returned"
    /\ vm' = eval_script_closure(vm)
    /\ UNCHANGED <<gc, gc_start, alloc, mods, dyn, rt, call, ops, pool, hook>>

StepError ==
    /\ vm.pc = "run"
    /\ eval_script_closure(vm).pc = "error"
    /\ vm' = eval_script_closure(vm)
    /\ UNCHANGED <<gc, gc_start, alloc, mods, dyn, rt, call, ops, pool, hook>>

NextVM == Compile \/ Enter \/ StepGo \/ StepReturn \/ StepError

SpecVM == InitVM /\ [][NextVM]_vars

\* C7: IfFalse pops one value and goes to its jump target exactly when the
\* popped value is null or the boolean false; on every other value the next
\* instruction runs
C7_IfFalseJumpsOnNullOrFalse ==
    vm.last.op = "IfFalse" =>
        (vm.last.jumped <=> vm.last.popped \in {null, false_})

\* C8: a unit entered with fewer arguments than its paramet_count fails with
\* an error before any of its opcodes is executed
C8_TooFewArgumentsFail ==
    (vm.pc \in {"run", "returned", "error"} /\ Len(vm.args) < vm.code.paramet_count)
        => (vm.pc = "error" /\ ~vm.executed)

\* C9: a unit entered with more arguments than its paramet_count drops the
\* excess: when its first opcode executes the stack is the first
\* paramet_count arguments followed by a null for every other local slot
C9_ExcessArgumentsIgnored ==
    (vm.pc = "run" /\ ~vm.executed /\ Len(vm.args) > vm.code.paramet_count)
        => vm.stack = [i \in 1..vm.code.local_count |->
                          IF i <= vm.code.paramet_count THEN vm.args[i] ELSE null]

\* values an opcode pops, values it pushes, and where control goes after it
Pops(o) ==
    CASE o.op \in {"Add", "Sub", "BitAnd", "Lt", "SetCapture"} -> 2
      [] o.op \in {"SetLocal", "Pop", "Not", "BitNot", "IfFalse", "Return",
                   "Iter", "IterNext", "NewClosure"} -> 1
      [] o.op = "NewArray" -> o.arg
      [] o.op = "Call" -> o.arg + 1
      [] OTHER -> 0

Pushes(o) ==
    CASE o.op \in {"LoadNull", "LoadInt", "GetGlobal", "GetLocal", "Dup",
                   "Add", "Sub", "BitAnd", "Lt", "Not", "BitNot", "GetCapture",
                   "Iter", "IterNext", "NewArray", "NewClosure", "Call"} -> 1
      [] OTHER -> 0

Successors(ip, o) ==
    CASE o.op \in {"IfFalse", "IterNext"} -> {ip + 1, ip + o.arg}
      [] o.op = "Jmp" -> {ip + o.arg}
      [] o.op = "Return" -> {}
      [] OTHER -> {ip + 1}

\* the <<ip, depth>> pairs of a unit that some control-flow path reaches,
\* depth being the number of operand values above the local slots
RECURSIVE PathStates(_, _, _)
PathStates(code, seen, frontier) ==
    IF frontier = {} THEN seen
    ELSE LET step == UNION {
                 LET o == code.ops[s[1] + 1] IN
                 IF s[2] < Pops(o) THEN {}
                 ELSE {<<j, s[2] - Pops(o) + Pushes(o)
                            - (IF o.op = "IterNext" /\ j # s[1] + 1 THEN 1 ELSE 0)>> :
                       j \in Successors(s[1], o)}
                 : s \in frontier}
             fresh == {s \in step : s[1] < Len(code.ops) /\ s[2] <= Len(code.ops)} \ seen
         IN PathStates(code, seen \cup fresh, fresh)

StackSafe(code) ==
    \A s \in PathStates(code, {<<0, 0>>}, {<<0, 0>>}) : s[2] >= Pops(code.ops[s[1] + 1])

\* C10: compiled code is statically stack-safe: along every control-flow
\* path of every unit each instruction finds at least as many operand values
\* above the local slots as it pops
C10_CompiledCodeStackSafe ==
    vm.pc = "compiled" => StackSafe(vm.code)
\* the opcode the interpreter is about to execute
Fetched == vm.code.ops[vm.ip + 1]

\* the step from the unprimed to the primed state executes a taken jump:
\* a Jmp, or an IfFalse whose popped value made it branch
TakesJump ==
    /\ vm.pc = "run"
    /\ vm'.pc = "run"
    /\ \/ Fetched.op = "Jmp"
       \/ Fetched.op = "IfFalse" /\ vm'.last.op = "IfFalse" /\ vm'.last.jumped

C17_FetchInsideVector ==
    /\ vm.pc = "run" => vm.ip \in 0..(Len(vm.code.ops) - 1)
    /\ vm.pc # "source" =>
          \A i \in 0..(Len(vm.code.ops) - 1) :
              Successors(i, vm.code.ops[i + 1]) \subseteq 0..(Len(vm.code.ops) - 1)

\* a unit running after a backward jump
C17_Witness ==
    /\ vm.pc = "run"
    /\ vm.last.op = "Jmp"
    /\ vm.last.jumped
    /\ vm.code.ops[vm.ip + 1].op # "Return"

\* C18: finished code holds no label-form opcode and the interpreter never
\* executes one
C18_NoLabelOpcodes ==
    /\ vm.pc # "source" =>
          \A i \in 1..Len(vm.code.ops) :
              vm.code.ops[i].op \notin {"IfFalseLabel", "JmpLabel", "IterNextLabel"}
    /\ vm.err # "instruction is reserved"

\* a unit with resolved jumps is running
C18_Witness ==
    /\ vm.pc = "run"
    /\ vm.executed
    /\ \E i \in 1..Len(vm.code.ops) : vm.code.ops[i].op \in {"IfFalse", "Jmp"}

\* the unit has run to its end when entered as eval enters it, without
\* arguments
Evaluated(ast) ==
    vm.unit.ast = ast /\ vm.args = <<>> /\ vm.pc \in {"returned", "error"}

\* C11: a closure that assigns to a variable captured from its defining
\* function sees the assignment in its later calls: the program
\* function mk(n) { i = 0; () => { i = i + 1; i } }; c = mk(0); c(); c(); c()
\* evaluates to the integer 3
C11_CounterReturnsThree ==
    Evaluated(CounterProgram) => (vm.pc = "returned" /\ vm.ret = RInt(3))

\* C12: a lambda bound to a name by assignment calls itself through that
\* name: fib = n => if (n < 2) n else fib(n-1) + fib(n-2); fib(10)
\* evaluates to the integer 55
C12_FibTenIsFiftyFive ==
    Evaluated(FibProgram(10)) => (vm.pc = "returned" /\ vm.ret = RInt(55))

\* every name a child unit captures is a local or a capture of the unit the
\* child stands in, in the whole tree of units under code
RECURSIVE Registered(_)
Registered(code) ==
    \A i \in 1..Len(code.children) :
        /\ Range(code.children[i].captured) \subseteq
               Range(code.locals) \cup Range(code.captured)
        /\ Registered(code.children[i])

\* every GetCapture of the tree names a capture slot of its own unit
RECURSIVE CapturesInRange(_)
CapturesInRange(code) ==
    /\ \A i \in 1..Len(code.ops) :
           code.ops[i].op = "GetCapture" => code.ops[i].arg < Len(code.captured)
    /\ \A i \in 1..Len(code.children) : CapturesInRange(code.children[i])

\* the innermost unit of NestedProgram
Innermost(code) == code.children[1].children[1]

IsSelfProgram ==
    \E k \in 0..MaxDepth, v \in BOOLEAN : vm.unit.ast = SelfProgram(k, v)

\* the pending Call of a suspended activation and the value it calls
Callee(frame) ==
    frame.stack[Len(frame.stack) - frame.code.ops[frame.ip + 1].arg]

\* C14: after a function definition whose body names the function, the self
\* slot of the closure's captured array holds the closure itself, one copy
\* of the closure is on the operand stack above the locals for the binding
\* that follows, and every call made through the name, from outside or from
\* inside the body, runs that same closure
C14_SelfSlotHoldsClosure ==
    (Len(vm.unit.ast.kids) = 2 /\ IsSelfProgram /\ vm.pc \in {"run", "returned", "error"}) =>
        /\ Len(vm.funcs) <= 1
        /\ vm.pc # "error"
        /\ (vm.last.op = "SetCapture" /\ vm.frames = <<>>) =>
               /\ Len(vm.stack) = Len(vm.args) + vm.code.local_count + 1
               /\ vm.stack[Len(vm.stack)] = RFunction(1)
               /\ vm.arrays[vm.funcs[1].captured] = <<RFunction(1)>>
        /\ vm.frames # <<>> =>
               /\ vm.code = vm.funcs[1].code
               /\ vm.caps = vm.funcs[1].captured
               /\ vm.arrays[vm.caps] = <<RFunction(1)>>
               /\ \A i \in 1..Len(vm.frames) : Callee(vm.frames[i]) = RFunction(1)

\* the closure is running a call it made to itself from a call it made to
\* itself
C14_Witness ==
    /\ IsSelfProgram
    /\ vm.pc = "run"
    /\ Len(vm.frames) = 3
    /\ vm.frames[3].code = vm.code

\* the back-jumps of a finished unit, one for each loop, and for a back-jump
\* at j the place it goes to and the conditional jump of its loop: the first
\* IfFalse or IterNext from there on that leaves the loop
BackJumps(code) ==
    {j \in 0..(Len(code.ops) - 1) : code.ops[j + 1].op = "Jmp" /\ code.ops[j + 1].arg < 0}

LoopTop(code, j) == j + code.ops[j + 1].arg

LoopExits(code, j) ==
    {i \in 0..(j - 1) : /\ i >= LoopTop(code, j)
                        /\ code.ops[i + 1].op \in {"IfFalse", "IterNext"}
                        /\ i + code.ops[i + 1].arg = j + 1}

\* the while and for loops written in a unit
RECURSIVE LoopCount(_)
RECURSIVE LoopCountAll(_, _)
LoopCountAll(kids, i) ==
    IF i > Len(kids) THEN 0 ELSE LoopCount(kids[i]) + LoopCountAll(kids, i + 1)

LoopCount(ast) ==
    (IF ast.form \in {"While", "For"} THEN 1 ELSE 0) + LoopCountAll(ast.kids, 1)

\* the loops of the running unit are laid out as written: as many back-jumps
\* as loops, each with its conditional jump between the top and the
\* back-jump; a for loop's top is the Dup before its IterNext, and the
\* condition of a loop that opens its unit starts at instruction 0
LoopsLaidOut ==
    (vm.pc = "compiled") =>
        /\ Cardinality(BackJumps(vm.code)) = LoopCount(vm.unit.ast)
        /\ \A j \in BackJumps(vm.code) :
               /\ LoopTop(vm.code, j) >= 0
               /\ LoopExits(vm.code, j) # {}
               /\ \A i \in LoopExits(vm.code, j) :
                      vm.code.ops[i + 1].op = "IterNext" =>
                          /\ i = LoopTop(vm.code, j) + 1
                          /\ vm.code.ops[i].op = "Dup"
               /\ vm.unit.ast.kids[1].form = "While" => LoopTop(vm.code, j) = 0

\* the condition the conditional jump at ip is about to see is false: the
\* boolean false for IfFalse, an iterator with nothing left for IterNext
SeesFalse ==
    /\ vm.stack # <<>>
    /\ LET x == vm.stack[Len(vm.stack)] IN
       IF Fetched.op = "IfFalse" THEN x = false_
       ELSE x.t = "ArrayIter" /\ array_iter__next(vm, x.v) = <<>>

LoopStep ==
    (vm.pc = "run" /\ vm'.pc = "run" /\ vm.frames = <<>> /\ vm'.frames = <<>>) =>
        \A j \in BackJumps(vm.code) :
            /\ vm.ip = j => vm'.ip = LoopTop(vm.code, j)
            /\ (vm.ip \in LoopExits(vm.code, j) /\ SeesFalse) => vm'.ip = j + 1

MaxOverloads == 2
MaxInstances == 1
NFuncs == 2

ArithOp ==
    {"Add", "Sub", "Mul", "Div", "IDiv", "Mod", "Pow", "And", "Or",
     "BitAnd", "BitOr", "BitXor", "Shl", "Shr"}

UnaryOp == {"Not", "BitNot"}

OverloadOp ==
    {"New", "Destory", "Str", "Hash", "Iter", "Next", "GetItem", "SetItem",
     "Call", "Eq", "Cmp"} \cup ArithOp \cup UnaryOp

\* the native slots of RType and, under the same names, its script-side
\* fields; _arith[op], _arith_dyn[op], _unary[op] and _unary_dyn[op] under the
\* name of op
Slots == OverloadOp \cup {"GetAttr", "SetAttr"}

\* RType::init: no slot and no script function
RTypeNew ==
    [isdyn |-> FALSE, slots |-> [s \in Slots |-> "None"],
     overrides |-> [f \in Slots |-> 0]]

\* the shim that type_new_dyn puts into each slot
type_new_dyn ==
    [RTypeNew EXCEPT
        !.isdyn = TRUE,
        !.slots = [s \in Slots |->
            CASE s = "New" -> "_dyn__new"
              [] s = "Destory" -> "_dyn__destory"
              [] s = "GetAttr" -> "_dyn__get_attr"
              [] s = "SetAttr" -> "_dyn__set_attr"
              [] s = "GetItem" -> "_dyn__get_item"
              [] s = "SetItem" -> "_dyn__set_item"
              [] s = "Call" -> "_dyn__call"
              [] s = "Eq" -> "_dyn__eq"
              [] s = "Cmp" -> "_dyn__cmp"
              [] s = "Str" -> "_dyn__to_string"
              [] s = "Hash" -> "_dyn__hash"
              [] s = "Add" -> "_dyn__add"
              [] s = "Sub" -> "_dyn__sub"
              [] s = "Mul" -> "_dyn__mod"
              [] s = "Div" -> "_dyn__div"
              [] s = "IDiv" -> "_dyn__idiv"
              [] s = "Mod" -> "_dyn__mod"
              [] s = "Pow" -> "_dyn__pow"
              [] s = "And" -> "_dyn__add"
              [] s = "Or" -> "_dyn__or"
              [] s = "BitAnd" -> "_dyn__add"
              [] s = "BitOr" -> "_dyn__bitor"
              [] s = "BitXor" -> "_dyn__bitxor"
              [] s = "Shl" -> "_dyn__shl"
              [] s = "Shr" -> "_dyn__shr"
              [] s = "Not" -> "_dyn__not"
              [] s = "BitNot" -> "_dyn__bitnot"
              [] OTHER -> "None"]]

\* the script-side field each shim reads
shim_field(shim) ==
    CASE shim = "_dyn__new" -> "New"
      [] shim = "_dyn__destory" -> "Destory"
      [] shim = "_dyn__get_attr" -> "GetAttr"
      [] shim = "_dyn__set_attr" -> "SetAttr"
      [] shim = "_dyn__get_item" -> "GetItem"
      [] shim = "_dyn__set_item" -> "SetAttr"
      [] shim = "_dyn__call" -> "Call"
      [] shim = "_dyn__eq" -> "Eq"
      [] shim = "_dyn__cmp" -> "Cmp"
      [] shim = "_dyn__to_string" -> "Str"
      [] shim = "_dyn__hash" -> "Hash"
      [] shim = "_dyn__add" -> "Add"
      [] shim = "_dyn__sub" -> "Sub"
      [] shim = "_dyn__mul" -> "Mul"
      [] shim = "_dyn__div" -> "Div"
      [] shim = "_dyn__idiv" -> "IDiv"
      [] shim = "_dyn__mod" -> "Mod"
      [] shim = "_dyn__pow" -> "Pow"
      [] shim = "_dyn__and" -> "And"
      [] shim = "_dyn__or" -> "Or"
      [] shim = "_dyn__bitand" -> "BitAnd"
      [] shim = "_dyn__bitor" -> "BitOr"
      [] shim = "_dyn__bitxor" -> "BitXor"
      [] shim = "_dyn__shl" -> "Shl"
      [] shim = "_dyn__shr" -> "Shr"
      [] shim = "_dyn__not" -> "Not"
      [] shim = "_dyn__bitnot" -> "BitNot"

\* opfunc::set_overload: the with_*_dyn of the role
set_overload(oop, tp, func) == [tp EXCEPT !.overrides[oop] = func]

\* value_binary_op, value_unary_op, value_get_item, ... on an instance: the
\* slot's native function if there is one, and in the shim the call of the
\* script function it finds with this = the instance.  called = 0 is the
\* shim's own outcome: an Err, or for _dyn__to_string the debug format.
value_dispatch(tp, slot, inst) ==
    LET shim == tp.slots[slot]
        func == IF shim = "None" THEN 0 ELSE tp.overrides[shim_field(shim)]
    IN [slot |-> slot, inst |-> inst, registered |-> tp.overrides[slot],
        called |-> func, this |-> IF func = 0 THEN 0 ELSE inst]

InitDyn ==
    /\ dyn = [pc |-> "script", tp |-> RTypeNew, typed |-> FALSE, overloads |-> 0,
              instances |-> 0,
              last |-> [slot |-> "none", inst |-> 0, registered |-> 0,
                        called |-> 0, this |-> 0]]
    /\ gc = IdleGc
    /\ gc_start = IdleGc
    /\ alloc = IdleAlloc
    /\ mods = IdleMods
    /\ vm = IdleVm
    /\ rt = IdleRt
    /\ call = IdleCall
    /\ ops = IdleOps
    /\ pool = IdlePool
    /\ hook = IdleHook

\* the NewType opcode
NewType ==
    /\ ~dyn.typed
    /\ dyn' = [dyn EXCEPT !.typed = TRUE, !.tp = type_new_dyn]
    /\ UNCHANGED <<gc, gc_start, alloc, mods, vm, rt, call, ops, pool, hook>>

\* the SetOverload opcode
SetOverload ==
    /\ dyn.typed
    /\ dyn.overloads < MaxOverloads
    /\ \E oop \in OverloadOp, func \in 1..NFuncs :
           dyn' = [dyn EXCEPT !.tp = set_overload(oop, dyn.tp, func),
                              !.overloads = @ + 1]
    /\ UNCHANGED <<gc, gc_start, alloc, mods, vm, rt, call, ops, pool, hook>>

\* the type is called: value_new, and in _dyn__new the instance is made
\* before the registered constructor runs on it
NewInstance ==
    /\ dyn.typed
    /\ dyn.instances < MaxInstances
    /\ LET d == value_dispatch(dyn.tp, "New", dyn.instances + 1) IN
       dyn' = [dyn EXCEPT !.last = d,
                          !.instances = IF d.called = 0 THEN @ ELSE @ + 1]
    /\ UNCHANGED <<gc, gc_start, alloc, mods, vm, rt, call, ops, pool, hook>>

\* an operator, a subscript, a call, a comparison, a conversion or an
\* iteration step is applied to an instance
Apply ==
    /\ dyn.typed
    /\ \E slot \in OverloadOp \ {"New", "Destory"}, inst \in 1..dyn.instances :
           dyn' = [dyn EXCEPT !.last = value_dispatch(dyn.tp, slot, inst)]
    /\ UNCHANGED <<gc, gc_start, alloc, mods, vm, rt, call, ops, pool, hook>>

NextDyn == NewType \/ SetOverload \/ NewInstance \/ Apply

SpecDyn == InitDyn /\ [][NextDyn]_vars

\* C19: on an instance of a dynamic type every operation for which a script
\* function is registered (a binary or unary operator, get_item, set_item,
\* call, eq, cmp, str, hash, iter, next) runs the function registered for
\* that very role, with this = the instance
C19_ShimRunsOwnOverride ==
    (dyn.pc = "script" /\ dyn.last.slot \in OverloadOp \ {"New", "Destory"}
        /\ dyn.last.registered # 0) =>
            /\ dyn.last.called = dyn.last.registered
            /\ dyn.last.this = dyn.last.inst

(***************************************************************************)
(* Part 6: runtime initialisation (runtime.rs _initialize, builtin.rs)     *)
(*                                                                         *)
(* _initialize as the sequence of its allocations and slot installations,  *)
(* in program order, followed by the run of a script that makes values     *)
(* and dynamic types.  A built-in type is its name; a dynamic type is a    *)
(* number from 1.                                                          *)
(***************************************************************************)
PoolSize == 2
MaxDynTypes == 2

BuiltinTypes ==
    {"Type", "String", "Null", "Bool", "Int", "Float", "Tuple", "Array", "Map",
     "Function", "Option", "Module", "Ast", "ScriptCode", "ArrayIter",
     "TupleIter"}

\* new_gc_obj / string_pool_create_without_type / new_type_without_type: a
\* value whose type is t comes into being
alloc_step(t) == [k |-> "alloc", t |-> t]

\* the with_* calls of _init_type_<t>
slots_step(t) == [k |-> "slots", t |-> t]

_create_type_and_string_type ==
    <<alloc_step("String"), alloc_step("String"),
      alloc_step("Type"), alloc_step("Type")>>

\* RType::new_with_str: the name, then the type object
new_with_str == <<alloc_step("String"), alloc_step("Type")>>

\* Null, Bool, Int, FLoat, Tuple, Array, Map, Function, Option, Module, Ast,
\* ScriptCode, ArrayIter, TupleIter
_create_builtin_types ==
    new_with_str \o new_with_str \o new_with_str \o new_with_str \o
    new_with_str \o new_with_str \o new_with_str \o new_with_str \o
    new_with_str \o new_with_str \o new_with_str \o new_with_str \o
    new_with_str \o new_with_str

\* RType::add_method_str_light: RString::new, RFunction::from_rust_func
add_method_str_light == <<alloc_step("String"), alloc_step("Function")>>

\* _init_type_type, _init_type_string, _init_type_null, ... : the with_*
\* calls of the type, then its add_method_str_light calls; _init_type_option
\* goes on with two from_rust_func and two set_attr_str (RString::new)
_init_type(t) ==
    <<slots_step(t)>> \o
    CASE t \in {"Type", "String", "Tuple", "Array", "Module"} ->
            add_method_str_light
      [] t = "Map" -> add_method_str_light \o add_method_str_light
      [] t = "Option" ->
            add_method_str_light \o add_method_str_light
                \o add_method_str_light
                \o <<alloc_step("Function"), alloc_step("Function")>>
                \o <<alloc_step("String"), alloc_step("String")>>
      [] OTHER -> <<>>

_init_builtin_types ==
    _init_type("Type") \o _init_type("String") \o _init_type("Null")
        \o _init_type("Bool") \o _init_type("Int") \o _init_type("Float")
        \o _init_type("Tuple") \o _init_type("Array") \o _init_type("Map")
        \o _init_type("Function") \o _init_type("Option")
        \o _init_type("Module") \o _init_type("Ast")
        \o _init_type("ScriptCode") \o _init_type("ArrayIter")
        \o _init_type("TupleIter")

\* null, true, false, none
_init_builtin_values ==
    <<alloc_step("Null"), alloc_step("Bool"), alloc_step("Bool"),
      alloc_step("Option")>>

\* SMALL_INTEGER_BEG..SMALL_INTEGER_END, cut to PoolSize integers
_init_integer_pool == [n \in 1..PoolSize |-> alloc_step("Int")]

\* set_global_with_str: RString::new of the name, sixteen times
_init_builtin_global == [n \in 1..16 |-> alloc_step("String")]

_initialize ==
    _create_type_and_string_type \o _create_builtin_types
        \o _init_builtin_types \o _init_builtin_values \o _init_integer_pool
        \o _init_builtin_global

InitRuntime ==
    /\ rt = [pc |-> "initialize", ip |-> 1, installed |-> {}, allocated |-> {},
             dyn_installed |-> {}, dyn_allocated |-> {}]
    /\ gc = IdleGc
    /\ gc_start = IdleGc
    /\ alloc = IdleAlloc
    /\ mods = IdleMods
    /\ vm = IdleVm
    /\ dyn = IdleDyn
    /\ call = IdleCall
    /\ ops = IdleOps
    /\ pool = IdlePool
    /\ hook = IdleHook

\* the next statement of _initialize; after the last one
\* _RUNTIME_IS_INITIALIZED_ = true
InitializeStep ==
    /\ rt.pc = "initialize"
    /\ LET s == _initialize[rt.ip] IN
       rt' = [rt EXCEPT
                !.installed = IF s.k = "slots" THEN @ \cup {s.t} ELSE @,
                !.allocated = IF s.k = "alloc" THEN @ \cup {s.t} ELSE @,
                !.ip = @ + 1,
                !.pc = IF rt.ip = Len(_initialize) THEN "initialized" ELSE @]
    /\ UNCHANGED <<gc, gc_start, alloc, mods, vm, dyn, call, ops, pool, hook>>

\* a script makes a value of a built-in type
NewValue ==
    /\ rt.pc = "initialized"
    /\ \E t \in BuiltinTypes : rt' = [rt EXCEPT !.allocated = @ \cup {t}]
    /\ rt' # rt
    /\ UNCHANGED <<gc, gc_start, alloc, mods, vm, dyn, call, ops, pool, hook>>

\* type_new_dyn: RType::new makes the type object, then every with_* call
TypeNewDyn ==
    /\ rt.pc = "initialized"
    /\ Cardinality(rt.dyn_installed) < MaxDynTypes
    /\ rt' = [rt EXCEPT !.allocated = @ \cup {"Type"},
                        !.dyn_installed = @ \cup {Cardinality(@) + 1}]
    /\ UNCHANGED <<gc, gc_start, alloc, mods, vm, dyn, call, ops, pool, hook>>

\* _dyn__new: new_gc_obj of a type that a script has declared
DynNew ==
    /\ rt.pc = "initialized"
    /\ \E t \in rt.dyn_installed \ rt.dyn_allocated :
           rt' = [rt EXCEPT !.dyn_allocated = @ \cup {t}]
    /\ UNCHANGED <<gc, gc_start, alloc, mods, vm, dyn, call, ops, pool, hook>>

NextInit == InitializeStep \/ NewValue \/ TypeNewDyn \/ DynNew

SpecInit == InitRuntime /\ [][NextInit]_vars

\* C20: for every type, built-in or dynamic, the dispatch slots are installed
\* before its first instance is allocated: at every moment a type that has
\* an instance has its slots
C20_SlotsBeforeFirstInstance ==
    rt.pc # "none" =>
        /\ rt.allocated \subseteq rt.installed
        /\ rt.dyn_allocated \subseteq rt.dyn_installed

(***************************************************************************)
(* Part 7: the call dispatcher (Runtime::_call, value_call,                *)
(* value_call_with_this, _value_call_raw)                                  *)
(*                                                                         *)
(*   frames  Runtime::_frames, oldest first: the callee of each frame      *)
(*   acts    the invocations of Runtime::_call that have not returned,     *)
(*           oldest first: the callee, the depth of frames when _call was  *)
(*           entered, and whether a call made by this callee has returned  *)
(*           an Err to it                                                  *)
(*   last    the latest return of _call: Ok or Err, the callee, and the    *)
(*           depth of frames before the call and after it                  *)
(* A callee is a script function, a host function or a value whose type    *)
(* has no call slot.                                                       *)
(***************************************************************************)
\* deepest nesting of calls
MaxCallDepth == 3

Callees == {"script", "native", "uncallable"}

\* Runtime::_call up to the call of _value_call_raw: the frame is pushed; a
\* failed push is Err(OutOfMemory) at once
_call_enter(c, callee, oom) ==
    IF oom
    THEN [c EXCEPT !.last = [ret |-> "Err", callee |-> callee,
                             before |-> Len(c.frames), after |-> Len(c.frames)],
                   !.pc = "returned"]
    ELSE [c EXCEPT !.frames = Append(@, callee),
                   !.acts = Append(@, [callee |-> callee, before |-> Len(c.frames),
                                       failed |-> FALSE]),
                   !.pc = "called"]

\* the frame stays on an Err: `?` on the call, before the pop
_call_leave_on_ok(c, ret) ==
    LET a == c.acts[Len(c.acts)]
        fr == IF ret = "Ok" THEN Front(c.frames) ELSE c.frames
    IN [c EXCEPT !.frames = fr,
                 !.acts = Front(@),
                 !.last = [ret |-> ret, callee |-> a.callee, before |-> a.before,
                           after |-> Len(fr)],
                 !.pc = "returned"]

\* Runtime::_call from the return of _value_call_raw: self._frames.pop(),
\* then ret, whatever it is
_call_leave(c, ret) ==
    LET a == c.acts[Len(c.acts)]
    IN [c EXCEPT !.frames = Front(@),
                 !.acts = Front(@),
                 !.last = [ret |-> ret, callee |-> a.callee, before |-> a.before,
                           after |-> Len(c.frames) - 1],
                 !.pc = "returned"]

\* what the caller of a returned _call does with the result: the `?` of
\* eval_script_closure makes a script function return the Err next; a host
\* function may handle it
_call_result(c, ret) ==
    IF ret = "Err" /\ c.acts # <<>> /\ c.acts[Len(c.acts)].callee = "script"
    THEN [c EXCEPT !.acts[Len(c.acts)].failed = TRUE]
    ELSE c

InitCall ==
    /\ call = [frames |-> <<>>, acts |-> <<>>,
               last |-> [ret |-> "none", callee |-> "none", before |-> 0, after |-> 0],
               pc |-> "host"]
    /\ gc = IdleGc
    /\ gc_start = IdleGc
    /\ alloc = IdleAlloc
    /\ mods = IdleMods
    /\ vm = IdleVm
    /\ dyn = IdleDyn
    /\ rt = IdleRt
    /\ ops = IdleOps
    /\ pool = IdlePool
    /\ hook = IdleHook

\* value_call / value_call_with_this by the host, or by the running callee
\* (the Call opcode of a script function, a host function that calls back)
ValueCall ==
    /\ Len(call.acts) < MaxCallDepth
    /\ call.acts # <<>> =>
          /\ call.acts[Len(call.acts)].callee # "uncallable"
          /\ ~call.acts[Len(call.acts)].failed
    /\ \E callee \in Callees, oom \in BOOLEAN :
           call' = _call_result(_call_enter(call, callee, oom),
                                IF oom THEN "Err" ELSE "Ok")
    /\ UNCHANGED <<gc, gc_start, alloc, mods, vm, dyn, rt, ops, pool, hook>>

\* the running callee returns a value
ReturnOk ==
    /\ call.acts # <<>>
    /\ call.acts[Len(call.acts)].callee # "uncallable"
    /\ ~call.acts[Len(call.acts)].failed
    /\ call' = _call_result(_call_leave(call, "Ok"), "Ok")
    /\ UNCHANGED <<gc, gc_start, alloc, mods, vm, dyn, rt, ops, pool, hook>>

\* the running callee returns an error: its own, the "is not callable" of
\* _value_call_raw, or the one a call it made has returned
ReturnErr ==
    /\ call.acts # <<>>
    /\ call' = _call_result(_call_leave(call, "Err"), "Err")
    /\ UNCHANGED <<gc, gc_start, alloc, mods, vm, dyn, rt, ops, pool, hook>>

NextCall == ValueCall \/ ReturnOk \/ ReturnErr

SpecCall == InitCall /\ [][NextCall]_vars

\* C21: every call through the dispatcher in progress has exactly one frame,
\* which records its callee, and when the call returns - with a value or with
\* an error, at any nesting - the frame stack is as deep as before the call
C21_FrameDepthRestored ==
    call.pc # "none" =>
        /\ Len(call.frames) = Len(call.acts)
        /\ \A i \in 1..Len(call.acts) :
              call.frames[i] = call.acts[i].callee /\ call.acts[i].before = i - 1
        /\ call.last.ret # "none" => call.last.after = call.last.before

\* a host function called by a script function called by a host function
\* has returned an error
C21_Witness ==
    /\ call.pc = "returned"
    /\ call.last.ret = "Err"
    /\ call.last.callee = "native"
    /\ call.last.before = 2
    /\ call.frames = <<"native", "script">>
    /\ call.acts[2].failed

(***************************************************************************)
(* Part 8: the handlers of the binary opcodes Div, IDiv, And, Or, Eq, Ne   *)
(* of eval_script_closure, applied to two operands on the stack            *)
(*                                                                         *)
(*   left, right  the operands the program pushed, left first              *)
(*   stack        the operand stack of the frame                           *)
(*   op           the opcode executed                                      *)
(*   pc           "ready" before the opcode, then "done" (the result is    *)
(*                pushed), "error" (the handler returned Err to the        *)
(*                caller) or "panic" (the thread unwinds)                  *)
(***************************************************************************)
\* the integer operands run from -MaxOperand to MaxOperand
MaxOperand == 2

Operands == {RInt(n) : n \in -MaxOperand..MaxOperand} \cup {true_, false_, null}

InitOps ==
    /\ ops \in {[left |-> l, right |-> r, stack |-> <<l, r>>, op |-> "none", pc |-> "ready"] :
                    l \in Operands, r \in Operands}
    /\ gc = IdleGc
    /\ gc_start = IdleGc
    /\ alloc = IdleAlloc
    /\ mods = IdleMods
    /\ vm = IdleVm
    /\ dyn = IdleDyn
    /\ rt = IdleRt
    /\ call = IdleCall
    /\ pool = IdlePool
    /\ hook = IdleHook

\* the end of a handler: push(stack, v) on Ok(v), `?` on Err
push_result(o, op, out) ==
    IF out = <<>>
    THEN [o EXCEPT !.stack = <<>>, !.op = op, !.pc = "error"]
    ELSE [o EXCEPT !.stack = <<out[1]>>, !.op = op, !.pc = "done"]

\* Div, IDiv, And, Or: right and left are popped, value_binary_op is
\* applied, the value is pushed
arith_handler(o, op) ==
    IF value_binary_op_panics(op, o.stack[1], o.stack[2])
    THEN [o EXCEPT !.stack = <<>>, !.op = op, !.pc = "panic"]
    ELSE push_result(o, op, value_binary_op(op, o.stack[1], o.stack[2]))

DivOp ==
    /\ ops.pc = "ready"
    /\ ops' = arith_handler(ops, "Div")
    /\ UNCHANGED <<gc, gc_start, alloc, mods, vm, dyn, rt, call, pool, hook>>

IDivOp ==
    /\ ops.pc = "ready"
    /\ ops' = arith_handler(ops, "IDiv")
    /\ UNCHANGED <<gc, gc_start, alloc, mods, vm, dyn, rt, call, pool, hook>>

AndOp ==
    /\ ops.pc = "ready"
    /\ ops' = arith_handler(ops, "And")
    /\ UNCHANGED <<gc, gc_start, alloc, mods, vm, dyn, rt, call, pool, hook>>

OrOp ==
    /\ ops.pc = "ready"
    /\ ops' = arith_handler(ops, "Or")
    /\ UNCHANGED <<gc, gc_start, alloc, mods, vm, dyn, rt, call, pool, hook>>

EqOp ==
    /\ ops.pc = "ready"
    /\ ops' = push_result(ops, "Eq", eq(ops.stack[1], ops.stack[2]))
    /\ UNCHANGED <<gc, gc_start, alloc, mods, vm, dyn, rt, call, pool, hook>>

NeOp ==
    /\ ops.pc = "ready"
    /\ ops' = push_result(ops, "Ne", ne(ops.stack[1], ops.stack[2]))
    /\ UNCHANGED <<gc, gc_start, alloc, mods, vm, dyn, rt, call, pool, hook>>

NextOps == DivOp \/ IDivOp \/ AndOp \/ OrOp \/ EqOp \/ NeOp

SpecOps == InitOps /\ [][NextOps]_vars

\* C22: integer `/` and integer `//` with an integer zero divisor return an
\* error to the caller: no value is pushed and the thread does not panic
C22_ZeroDivisorIsError ==
    (/\ ops.op \in {"Div", "IDiv"}
     /\ ops.left.t = "Int"
     /\ ops.right = RInt(0))
        => ops.pc = "error"

\* C29: when the equality test of the operands succeeds, Eq pushes true
\* exactly when they are equal, and so the opposite of what Ne pushes
C29_EqPushesEquality ==
    (ops.op = "Eq" /\ value_eq(ops.left, ops.right) # <<>>)
        => /\ ops.pc = "done"
           /\ ops.stack = <<IF value_eq(ops.left, ops.right)[1] THEN true_ ELSE false_>>
           /\ <<ops.stack[1]>> # ne(ops.left, ops.right)

\* C30: for boolean operands `a && b` is true exactly when both are true
\* and `a || b` is true exactly when at least one is
C30_AndOrTruthTables ==
    (ops.left.t = "Bool" /\ ops.right.t = "Bool") =>
        /\ ops.op = "And" =>
              ops.stack = <<IF as_bool(ops.left) /\ as_bool(ops.right)
                            THEN true_ ELSE false_>>
        /\ ops.op = "Or" =>
              ops.stack = <<IF as_bool(ops.left) \/ as_bool(ops.right)
                            THEN true_ ELSE false_>>

(***************************************************************************)
(* Further claims about the collector (PART 1, SpecGC)                     *)
(***************************************************************************)
\* C25: the decrement phase of a cycle never decrements a count that is
\* already zero: the decrements it applies to a value are at most the
\* value's count at the start of the cycle
C25_NoDecrementAtZero ==
    gc.result \in {"ok", "err"} =>
        /\ ~_dec_ref([gc_start EXCEPT !.result = "run"]).underflow
        /\ \A x \in Objs :
              SumOver([o \in Objs |-> Count(value_visit_ptr(gc_start.heap, o), x)], Objs)
                  <= gc_start.ref_count[x]

\* the references to x stored in the values the cycle destroyed
HeldByDestroyed(x) ==
    SumOver([o \in Objs |-> IF o \in gc.destroyed
                            THEN Count(Refs(gc_start.heap, o), x) ELSE 0], Objs)

\* C27: when a cycle completes, the count of every surviving value is its
\* count at the start minus the references to it held by the values the
\* cycle destroyed
C27_SurvivorCountsExact ==
    gc.result = "ok" =>
        \A x \in Objs \ (gc.destroyed \cup gc.freed) :
            gc.ref_count[x] = gc_start.ref_count[x] - HeldByDestroyed(x)

(***************************************************************************)
(* A further claim about the module cache (PART 3, SpecModule)             *)
(***************************************************************************)
\* the modules whose init function is running
Initialising == {mods.stack[i].module : i \in 1..Len(mods.stack)}

\* C28: a module that import returns from the cache has completed its init
\* function successfully or is executing it; a module whose init function
\* returned an error is not returned as a successful result
C28_HitIsInitialised ==
    (mods.pc = "import" /\ mods.last.hit) =>
        /\ mods.last.module \in mods.done \cup Initialising
        /\ mods.last.module \notin mods.failed

(***************************************************************************)
(* Part 9: allocation by a destroy hook during the reclaim phase           *)
(* (Runtime::new_gc_obj, Runtime::run_gc, Runtime::_free_cycles,           *)
(* _dyn__destory)                                                          *)
(*                                                                         *)
(* Values are numbered in the order of their allocation; every block has   *)
(* the size of one granule.  Which live values the decrement and scan      *)
(* phases condemn depends on the heap graph (PART 1) and is an input of    *)
(* the step that starts a cycle.                                           *)
(*   curent_mem_size, last_mem_size   the fields of GcInfo                 *)
(*   kinds      per value: "plain", or "dyn" for an instance of a script   *)
(*              type with a destructor override                            *)
(*   gc_objs, to_be_released_objs, has_been_released_objs                  *)
(*              the lists of GcInfo (the scratch list is empty whenever a  *)
(*              script can run: the first loop of _free_cycles empties it) *)
(*   cycles     the invocations of run_gc that have not returned, outermost*)
(*              first: the local last_mem_size, the value whose destroy    *)
(*              hook is running (0: none), and the kind of the value the   *)
(*              calling new_gc_obj goes on to allocate ("none": run_gc was *)
(*              called by the host)                                        *)
(*   owner      per value, the depth of the cycle that condemned it        *)
(*   foreign    the values destroyed or freed by another cycle than the    *)
(*              one that condemned them                                    *)
(*   freed      the values whose block was given back                      *)
(***************************************************************************)
\* values allocated at most
MaxValues == 5

ValueKinds == {"plain", "dyn"}

\* the end of new_gc_obj: the block is linked to the live list and counted
alloc_block(h, kind) ==
    [h EXCEPT !.kinds = Append(@, kind),
              !.gc_objs = Append(@, Len(h.kinds) + 1),
              !.curent_mem_size = @ + Granule]

\* run_gc up to the second loop of _free_cycles: the counters are read, the
\* condemned values leave the live list and are appended to the
\* to-be-released list
run_gc_enter(h, condemned, pending) ==
    [h EXCEPT !.cycles = Append(@, [last_mem_size |-> h.curent_mem_size,
                                    cur |-> 0, pending |-> pending]),
              !.gc_objs = SelectSeq(@, LAMBDA v : v \notin condemned),
              !.to_be_released_objs =
                  @ \o SelectSeq(h.gc_objs, LAMBDA v : v \in condemned),
              !.owner = [v \in DOMAIN h.owner |->
                            IF v \in condemned THEN Len(h.cycles) + 1 ELSE h.owner[v]],
              !.pc = "reclaim"]

\* Runtime::new_gc_obj: the threshold test, with nothing that tells whether
\* a cycle is in progress
new_gc_obj_in(h, kind, condemned) ==
    IF gc_wanted(h) THEN run_gc_enter(h, condemned, kind) ELSE alloc_block(h, kind)

\* one round of the second loop of _free_cycles up to value_destory
destroy_next(h) ==
    [h EXCEPT !.to_be_released_objs = Tail(@),
              !.has_been_released_objs = Append(@, Head(h.to_be_released_objs)),
              !.foreign = IF h.owner[Head(h.to_be_released_objs)] # Len(h.cycles)
                          THEN @ \cup {Head(h.to_be_released_objs)} ELSE @,
              !.cycles[Len(h.cycles)].cur =
                  IF h.kinds[Head(h.to_be_released_objs)] = "dyn"
                  THEN Head(h.to_be_released_objs) ELSE 0,
              !.pc = IF h.kinds[Head(h.to_be_released_objs)] = "dyn"
                     THEN "hook" ELSE "reclaim"]

\* the third loop of _free_cycles and the end of run_gc: every value on the
\* has-been-released list is freed, last_mem_size is stored
run_gc_leave(h) ==
    [h EXCEPT !.has_been_released_objs = <<>>,
              !.freed = @ \cup Range(h.has_been_released_objs),
              !.foreign = @ \cup {v \in Range(h.has_been_released_objs) :
                                     h.owner[v] # Len(h.cycles)},
              !.curent_mem_size = @ - Granule * Len(h.has_been_released_objs),
              !.last_mem_size = h.cycles[Len(h.cycles)].last_mem_size,
              !.cycles = Front(@)]

\* where control is after run_gc returned Ok: in the host, or in the destroy
\* hook whose allocation called it
resume(h, pending) ==
    [(IF pending = "none" THEN h ELSE alloc_block(h, pending)) EXCEPT
        !.pc = IF h.cycles = <<>> THEN "host" ELSE "hook"]

InitHook ==
    /\ hook = [curent_mem_size |-> BootMem, last_mem_size |-> 0,
               kinds |-> <<>>, gc_objs |-> <<>>,
               to_be_released_objs |-> <<>>, has_been_released_objs |-> <<>>,
               cycles |-> <<>>, owner |-> [v \in 1..MaxValues |-> 0],
               foreign |-> {}, freed |-> {}, pc |-> "host"]
    /\ gc = IdleGc
    /\ gc_start = IdleGc
    /\ alloc = IdleAlloc
    /\ mods = IdleMods
    /\ vm = IdleVm
    /\ dyn = IdleDyn
    /\ rt = IdleRt
    /\ call = IdleCall
    /\ ops = IdleOps
    /\ pool = IdlePool

\* the values allocated and those a cycle has in hand
Allocated(h) == Len(h.kinds) + Cardinality({i \in 1..Len(h.cycles) : h.cycles[i].pending # "none"})

\* the host, or a script outside any destroy hook, allocates a value
HostAlloc ==
    \E kind \in ValueKinds, condemned \in SUBSET Range(hook.gc_objs) :
        /\ hook.pc = "host"
        /\ Allocated(hook) < MaxValues
        /\ ~gc_wanted(hook) => condemned = {}
        /\ hook' = new_gc_obj_in(hook, kind, condemned)
        /\ UNCHANGED <<gc, gc_start, alloc, mods, vm, dyn, rt, call, ops, pool>>

\* the host calls run_gc()
HostCollect ==
    \E condemned \in SUBSET Range(hook.gc_objs) :
        /\ hook.pc = "host"
        /\ hook' = run_gc_enter(hook, condemned, "none")
        /\ UNCHANGED <<gc, gc_start, alloc, mods, vm, dyn, rt, call, ops, pool>>

\* the second loop of _free_cycles takes the next value and runs its
\* destroy hook; the hook of a plain value is host code that returns Ok
DestroyNext ==
    /\ hook.pc = "reclaim"
    /\ hook.to_be_released_objs # <<>>
    /\ hook' = destroy_next(hook)
    /\ UNCHANGED <<gc, gc_start, alloc, mods, vm, dyn, rt, call, ops, pool>>

\* the destructor script of a dynamic type allocates a value
HookAlloc ==
    \E kind \in ValueKinds, condemned \in SUBSET Range(hook.gc_objs) :
        /\ hook.pc = "hook"
        /\ Allocated(hook) < MaxValues
        /\ ~gc_wanted(hook) => condemned = {}
        /\ hook' = new_gc_obj_in(hook, kind, condemned)
        /\ UNCHANGED <<gc, gc_start, alloc, mods, vm, dyn, rt, call, ops, pool>>

\* the destructor script returns Ok and the loop goes on
HookReturn ==
    /\ hook.pc = "hook"
    /\ hook' = [hook EXCEPT !.cycles[Len(hook.cycles)].cur = 0, !.pc = "reclaim"]
    /\ UNCHANGED <<gc, gc_start, alloc, mods, vm, dyn, rt, call, ops, pool>>

\* the destructor script returns Err: `?` leaves _free_cycles and run_gc,
\* and the error travels to the host
HookFail ==
    /\ hook.pc = "hook"
    /\ hook' = [hook EXCEPT !.cycles = <<>>, !.pc = "error"]
    /\ UNCHANGED <<gc, gc_start, alloc, mods, vm, dyn, rt, call, ops, pool>>

\* the second loop is at its end: the third loop frees, run_gc returns and
\* its caller goes on.  When the caller is a destroy hook whose value was
\* freed by this cycle, it goes on with a dangling `this`: it may run on or
\* the process may crash.
FreeAndReturn ==
    /\ hook.pc = "reclaim"
    /\ hook.to_be_released_objs = <<>>
    /\ \E crash \in BOOLEAN :
          /\ crash => /\ Len(hook.cycles) > 1
                      /\ hook.cycles[Len(hook.cycles) - 1].cur
                             \in Range(hook.has_been_released_objs)
          /\ hook' = IF crash
                     THEN [run_gc_leave(hook) EXCEPT !.pc = "crashed"]
                     ELSE resume(run_gc_leave(hook),
                                 hook.cycles[Len(hook.cycles)].pending)
    /\ UNCHANGED <<gc, gc_start, alloc, mods, vm, dyn, rt, call, ops, pool>>

NextHook ==
    HostAlloc \/ HostCollect \/ DestroyNext \/ HookAlloc \/ HookReturn
        \/ HookFail \/ FreeAndReturn

SpecHook == InitHook /\ [][NextHook]_vars

\* C26: no cycle starts while another is in progress: an allocation made by
\* a destroy hook during the reclaim phase does not call run_gc, and no
\* value on the lists of the running cycle is destroyed or freed by another
C26_NoCycleInsideCycle ==
    hook.pc # "none" => Len(hook.cycles) <= 1 /\ hook.foreign = {}

(***************************************************************************)
(* Part 10: the string pool and the small-integer pool                     *)
(* (Runtime::string_pool_get, Runtime::integer_pool_get, RString::new,     *)
(* RInt::new) in a session that builds arrays and runs collection cycles   *)
(*                                                                         *)
(* pool.g is a collector state as in PART 1 (run_gc is the same operator); *)
(* its values are numbered in the order of their allocation, which is the  *)
(* order of the live list.  A string or an integer is a leaf: its type has *)
(* no visit and no destroy slot.                                           *)
(*   next                 the number of the next value allocated           *)
(*   string_pool          Runtime::_string_pool: bytes -> value            *)
(*   small_integer_pool   Runtime::_small_integer_pool: number -> value    *)
(*   bytes_of, number_of  the contents of the strings and the integers     *)
(*   first      per byte sequence, the value its first construction        *)
(*              returned (0: not constructed yet)                          *)
(*   last       the latest construction: what was asked for, by whom (the  *)
(*              host, the LoadInt opcode, int__add) and the value the      *)
(*              handle points to                                           *)
(*   cycles     the collection cycles run so far                           *)
(***************************************************************************)
\* values allocated in one session at most
MaxPoolObjs == 4
\* collection cycles in one session at most
MaxCycles == 2

SMALL_INTEGER_BEG == -256
SMALL_INTEGER_END == 512

\* the byte sequences and the numbers the modelled programs construct; of
\* the pooled range only the numbers used are given a value
Bytes == {"a", "b"}
IntsUsed == {1, 600}
Addends == {1, 599, 600, -599}

PoolObjs == 1..MaxPoolObjs

Pooled(n) == n >= SMALL_INTEGER_BEG /\ n < SMALL_INTEGER_END

FreeSlot == Obj("Free", 0, <<>>, 0, 0, "none")

\* Runtime::new_gc_obj without its threshold test (a cycle it starts is a
\* RunCycle step before the allocation): the block is linked last on the
\* live list; the Ref returned is the first reference
pool_new_gc_obj(p, rec) ==
    [p EXCEPT !.next = @ + 1,
              !.g = [@ EXCEPT !.heap[p.next] = rec,
                              !.ref_count[p.next] = 1,
                              !.gc_objs = Append(@, p.next),
                              !.current_obj_count = @ + 1]]

\* the host keeps one handle on a value: a second Ref on the same value is
\* dropped as soon as it is returned
keep(p, o) ==
    IF p.g.handles[o] > 0 THEN p
    ELSE [p EXCEPT !.g = [inc_ref(p.g, o) EXCEPT !.handles[o] = 1]]

\* the handle the latest construction returned
returned(p, what, bytes, n, o) ==
    [p EXCEPT !.last = [what |-> what, bytes |-> bytes, n |-> n, obj |-> o,
                        by |-> "host"],
              !.pc = "made"]

\* string_pool_get on a miss: new_gc_obj, RString::init, StringPool::add
\* (the pool keeps the first reference, the caller gets a clone)
string_pool_add(p, bytes) ==
    returned([pool_new_gc_obj(p, Obj("String", 0, <<>>, 0, 0, "none")) EXCEPT
                 !.string_pool = [b \in DOMAIN p.string_pool \cup {bytes} |->
                                     IF b = bytes THEN p.next ELSE p.string_pool[b]],
                 !.bytes_of[p.next] = bytes,
                 !.first[bytes] = IF @ = 0 THEN p.next ELSE @,
                 !.g = [@ EXCEPT !.handles[p.next] = 1, !.ref_count[p.next] = 2]],
             "string", bytes, 0, p.next)

\* Runtime::string_pool_get.  The pool compares the bytes of its keys; a
\* key whose block was freed is read after free, and the lookup may find it
\* (`intact`) or not.
string_pool_get(p, bytes, intact) ==
    IF bytes \in DOMAIN p.string_pool
          /\ (p.string_pool[bytes] \notin p.g.freed \/ intact)
    THEN IF p.string_pool[bytes] \in p.g.freed
         THEN returned(p, "string", bytes, 0, p.string_pool[bytes])
         ELSE returned(keep(p, p.string_pool[bytes]), "string", bytes, 0,
                       p.string_pool[bytes])
    ELSE string_pool_add(p, bytes)

\* _new_int_value
_new_int_value(p, n) ==
    [pool_new_gc_obj(p, Obj("Int", 0, <<>>, 0, 0, "none")) EXCEPT
        !.number_of[p.next] = n,
        !.g = [@ EXCEPT !.handles[p.next] = 1]]

\* Runtime::integer_pool_get: a clone of the pool's element for a number of
\* the pooled range, a new value for any other
integer_pool_get(p, n) ==
    IF Pooled(n)
    THEN IF p.small_integer_pool[n] \in p.g.freed
         THEN returned(p, "int", "", n, p.small_integer_pool[n])
         ELSE returned(keep(p, p.small_integer_pool[n]), "int", "", n,
                       p.small_integer_pool[n])
    ELSE returned(_new_int_value(p, n), "int", "", n, p.next)

\* the state _initialize leaves: _init_integer_pool has made one value for
\* each pooled number and keeps the reference
InitPool ==
    /\ pool = [g |-> [heap |-> [o \in PoolObjs |->
                                   IF o = 1 THEN Obj("Int", 0, <<>>, 0, 0, "none")
                                   ELSE FreeSlot],
                      handles |-> [o \in PoolObjs |-> 0],
                      ref_count |-> [o \in PoolObjs |-> IF o = 1 THEN 1 ELSE 0],
                      mark |-> [o \in PoolObjs |-> FALSE],
                      gc_objs |-> <<1>>, tmp_gc_objs |-> <<>>,
                      to_be_released_objs |-> <<>>, has_been_released_objs |-> <<>>,
                      destroyed |-> {}, freed |-> {}, current_obj_count |-> 1,
                      result |-> "idle", underflow |-> FALSE],
               next |-> 2,
               string_pool |-> <<>>,
               small_integer_pool |-> [n \in {m \in IntsUsed : Pooled(m)} |-> 1],
               bytes_of |-> [o \in PoolObjs |-> ""],
               number_of |-> [o \in PoolObjs |-> IF o = 1 THEN 1 ELSE 0],
               first |-> [b \in Bytes |-> 0],
               last |-> [what |-> "none", bytes |-> "", n |-> 0, obj |-> 0,
                         by |-> "host"],
               cycles |-> 0,
               pc |-> "host"]
    /\ gc = IdleGc
    /\ gc_start = IdleGc
    /\ alloc = IdleAlloc
    /\ mods = IdleMods
    /\ vm = IdleVm
    /\ dyn = IdleDyn
    /\ rt = IdleRt
    /\ call = IdleCall
    /\ ops = IdleOps
    /\ hook = IdleHook

\* the values the host can name: allocated, not freed, and held by a handle
Held(p) == {o \in 1..(p.next - 1) : p.g.handles[o] > 0 /\ o \notin p.g.freed}

\* a live value stores a reference to a freed one
Dangling(p) ==
    \E o \in 1..(p.next - 1) :
        o \notin p.g.freed /\ Range(p.g.heap[o].items) \cap p.g.freed # {}

\* RString::new / RString::format
StringNew ==
    \E bytes \in Bytes, intact \in BOOLEAN :
        /\ pool.pc # "none"
        /\ (bytes \in DOMAIN pool.string_pool /\ pool.string_pool[bytes] \in pool.g.freed)
              \/ intact
        /\ (bytes \notin DOMAIN pool.string_pool
              \/ (pool.string_pool[bytes] \in pool.g.freed /\ ~intact))
              => pool.next <= MaxPoolObjs
        /\ pool' = string_pool_get(pool, bytes, intact)
        /\ UNCHANGED <<gc, gc_start, alloc, mods, vm, dyn, rt, call, ops, hook>>

\* RInt::new called by the host
HostInt ==
    \E n \in IntsUsed :
        /\ pool.pc # "none"
        /\ ~Pooled(n) => pool.next <= MaxPoolObjs
        /\ pool' = integer_pool_get(pool, n)
        /\ UNCHANGED <<gc, gc_start, alloc, mods, vm, dyn, rt, call, ops, hook>>

\* the LoadInt opcode: RInt::new(n as Int)
LoadInt ==
    \E n \in IntsUsed :
        /\ pool.pc # "none"
        /\ ~Pooled(n) => pool.next <= MaxPoolObjs
        /\ pool' = [integer_pool_get(pool, n) EXCEPT !.last.by = "LoadInt"]
        /\ UNCHANGED <<gc, gc_start, alloc, mods, vm, dyn, rt, call, ops, hook>>

\* int__add: RInt::new(l.wrapping_add(r)); the sums are far inside isize
AddInt ==
    \E l \in Addends, r \in Addends :
        /\ pool.pc # "none"
        /\ l + r \in IntsUsed
        /\ ~Pooled(l + r) => pool.next <= MaxPoolObjs
        /\ pool' = [integer_pool_get(pool, l + r) EXCEPT !.last.by = "int__add"]
        /\ UNCHANGED <<gc, gc_start, alloc, mods, vm, dyn, rt, call, ops, hook>>

\* RArray::new
ArrayNew ==
    /\ pool.pc # "none"
    /\ pool.next <= MaxPoolObjs
    /\ pool' = [pool_new_gc_obj(pool, Obj("Array", 0, <<>>, 0, 0, "none")) EXCEPT
                  !.g = [@ EXCEPT !.handles[pool.next] = 1],
                  !.pc = "host"]
    /\ UNCHANGED <<gc, gc_start, alloc, mods, vm, dyn, rt, call, ops, hook>>

\* RArray::push of a value the host holds: the array takes a reference
ArrayPush ==
    \E a \in Held(pool), v \in Held(pool) :
        /\ pool.g.heap[a].kind = "Array"
        /\ Len(pool.g.heap[a].items) < MaxItems
        /\ pool' = [pool EXCEPT
                      !.g = inc_ref([@ EXCEPT !.heap[a].items = Append(@, v)], v),
                      !.pc = "host"]
        /\ UNCHANGED <<gc, gc_start, alloc, mods, vm, dyn, rt, call, ops, hook>>

\* the host drops its handle: Ref::drop is a dec_ref and nothing else
DropHandle ==
    \E o \in Held(pool) :
        /\ pool' = [pool EXCEPT
                      !.g = [dec_ref(@, o) EXCEPT !.handles[o] = 0],
                      !.pc = "host"]
        /\ UNCHANGED <<gc, gc_start, alloc, mods, vm, dyn, rt, call, ops, hook>>

\* a collection cycle: run_gc() called by the host or by new_gc_obj
RunCycle ==
    /\ pool.pc # "none"
    /\ pool.cycles < MaxCycles
    /\ ~Dangling(pool)
    /\ pool' = [pool EXCEPT !.g = run_gc(@), !.cycles = @ + 1, !.pc = "host"]
    /\ UNCHANGED <<gc, gc_start, alloc, mods, vm, dyn, rt, call, ops, hook>>

NextPool ==
    StringNew \/ HostInt \/ LoadInt \/ AddInt \/ ArrayNew \/ ArrayPush
        \/ DropHandle \/ RunCycle

SpecPool == InitPool /\ [][NextPool]_vars

\* C23: constructing a string from a byte sequence returns a handle to the
\* value the first construction from those bytes returned, and that value is
\* still allocated, whatever was allocated and collected in between; no two
\* strings hold the same bytes
C23_SameBytesSameObject ==
    pool.pc # "none" =>
        /\ (pool.pc = "made" /\ pool.last.what = "string") =>
              /\ pool.last.obj = pool.first[pool.last.bytes]
              /\ pool.last.obj \notin pool.g.freed
        /\ \A o1 \in 1..(pool.next - 1), o2 \in 1..(pool.next - 1) :
              (/\ pool.g.heap[o1].kind = "String"
               /\ pool.g.heap[o2].kind = "String"
               /\ pool.bytes_of[o1] = pool.bytes_of[o2]) => o1 = o2

\* C24: every Int(n) with n in the pooled range that the runtime hands out
\* is the one value the pool made for n, and that value is still allocated
C24_PooledIntIsThePooledObject ==
    (pool.pc = "made" /\ pool.last.what = "int" /\ Pooled(pool.last.n)) =>
        /\ pool.last.obj = pool.small_integer_pool[pool.last.n]
        /\ pool.number_of[pool.last.obj] = pool.last.n
        /\ pool.last.obj \notin pool.g.freed

====
